---- MODULE Spec2Model ----
(***************************************************************************)
(* HyperLog: the logger core (core/logger.ts), its level table, its error  *)
(* serializer, sampler, token-bucket limiter and metrics aggregator, as a  *)
(* state machine.  JavaScript objects live in a heap of nodes so that      *)
(* aliasing, in-place mutation and reference cycles are what they are in   *)
(* the program.                                                            *)
(***************************************************************************)
EXTENDS Integers, Sequences, FiniteSets, TLC

\* ------------------------------------------------------------------ bounds
MaxCalls == 2        \* log calls per behaviour
MaxChildren == 2     \* child() calls per behaviour
MaxTicks == 2        \* clock advances per behaviour
MaxDepth == 2        \* nesting depth of withContext scopes in one task
MaxSpawns == 2       \* asynchronous continuations alive at a time
StackLimit == 5      \* call-stack frames before the runtime raises RangeError
MaxTransports == 3   \* length of the transport array
MaxOps == 4          \* calls on a utility object used on its own
MaxSamples == 12     \* shouldSample() calls in a long run
MaxPoolOps == 7      \* calls on an object pool
MaxObjects == 3      \* objects the factory of a pool makes
MaxAdaptive == 4     \* shouldSample() calls on the adaptive sampler
MaxItems == 3        \* items enqueued on a write queue, entries written to a file transport
MaxDrains == 2       \* drain() calls on a write queue
EntryLength == 100   \* length of every formatted entry
Unit == 2            \* fractional quantities are held in units of 1/Unit

\* --------------------------------------------------------------- constants
WindowMs == 1000     \* RateLimiter.windowMs default
TickMs == 500        \* granularity of the modelled clock

\* ------------------------------------------------------------------ values
\* A JavaScript value: a string, a number, undefined, null, or a reference
\* to a heap node.  One record shape for all of them.
Str(x) == [k |-> "str", n |-> 0, s |-> x]
Num(x) == [k |-> "num", n |-> x, s |-> ""]
Ref(x, i) == [k |-> "ref", n |-> i, s |-> x]
Undefined == [k |-> "undefined", n |-> 0, s |-> ""]
Null == [k |-> "null", n |-> 0, s |-> ""]

EmptyProps == [x \in {} |-> Undefined]

\* typeof v === 'object' (true of null as well)
TypeofObject(v) == v.k \in {"ref", "null"}

\* JavaScript truthiness of a value
Truthy(v) ==
    CASE v.k = "str" -> v.s # ""
      [] v.k = "num" -> v.n # 0
      [] v.k = "ref" -> TRUE
      [] OTHER -> FALSE

\* String(n) for the numbers the model passes as a first argument
NumToString(n) ==
    CASE n = 0 -> "0"
      [] n = 7 -> "7"
      [] n = 42 -> "42"
      [] OTHER -> "NaN"

\* String(v) for a primitive v
JsString(v) ==
    CASE v.k = "str" -> v.s
      [] v.k = "num" -> NumToString(v.n)
      [] v.k = "undefined" -> "undefined"
      [] v.k = "null" -> "null"
      [] OTHER -> "[object Object]"

REDACTED == Str("[REDACTED]")

\* const x = v; F(x): the value is computed once and then used.
Bind(v, F(_)) == CHOOSE r \in { F(x) : x \in {v} } : TRUE

\* ------------------------------------------------------------------ levels
LogLevels == {"trace", "debug", "info", "warn", "error", "fatal"}

LOG_LEVELS ==
    [l \in LogLevels |->
        CASE l = "trace" -> 10
          [] l = "debug" -> 20
          [] l = "info" -> 30
          [] l = "warn" -> 40
          [] l = "error" -> 50
          [] l = "fatal" -> 60]

isValidLevel(level) == level \in DOMAIN LOG_LEVELS

\* A level name outside the table looks up to undefined, and every
\* comparison with undefined is false.
shouldLog_inverted(entryLevel, minLevel) ==
    /\ isValidLevel(entryLevel) /\ isValidLevel(minLevel)
    /\ LOG_LEVELS[entryLevel] <= LOG_LEVELS[minLevel]

shouldLog(entryLevel, minLevel) ==
    /\ isValidLevel(entryLevel) /\ isValidLevel(minLevel)
    /\ LOG_LEVELS[entryLevel] >= LOG_LEVELS[minLevel]

\* -------------------------------------------------------------------- heap
\* A node: its kind (a plain object, or an Error instance) and its
\* properties.  message, name and stack of an Error are not enumerable.
Node(kind, props) == [kind |-> kind, props |-> props]
FreeNode == Node("free", EmptyProps)

OwnKeys(node) ==
    IF node.kind = "error"
    THEN DOMAIN node.props \ {"message", "name", "stack"}
    ELSE DOMAIN node.props

\* Object.assign(target, source) on property maps
Assign(target, source) == source @@ target

\* The order in which the keys of a node are enumerated (for..in,
\* Object.keys): one fixed order over the keys the model uses.
KeyOrder ==
    << "0", "1", "level", "time", "hostname", "pid", "name", "msg", "err",
       "requestId", "tenant", "service", "component", "user", "password",
       "token", "data", "items", "self", "a", "code", "cause", "message", "stack" >>

RECURSIVE KeysIn(_, _)
KeysIn(order, keys) ==
    IF order = << >> THEN << >>
    ELSE IF Head(order) \in keys
         THEN << Head(order) >> \o KeysIn(Tail(order), keys)
         ELSE KeysIn(Tail(order), keys)

EnumKeys(node) == KeysIn(KeyOrder, OwnKeys(node))

OwnProps(node) == [key \in OwnKeys(node) |-> node.props[key]]

\* The references of the heap: the caller's objects, one bound-context
\* object per logger, the objects the error serializer creates (one per
\* frame of its recursion) and the entry under construction.
UserRefs ==
    { Ref("plain", 0), Ref("loop", 0), Ref("outer", 0), Ref("inner", 0),
      Ref("err", 0), Ref("rootCause", 0), Ref("cycErr", 0),
      Ref("ctxA", 0), Ref("ctxB", 0), Ref("svc", 0), Ref("db", 0),
      Ref("empty", 0), Ref("noted", 0), Ref("leveled", 0),
      Ref("batch", 0), Ref("list", 0), Ref("override", 0) }
CtxRef(l) == Ref("context", l)
SerRef(i) == Ref("serialized", i)
EntryRef == Ref("entry", 0)
HeapRefs ==
    UserRefs \cup { CtxRef(l) : l \in 1..(MaxChildren + 1) }
             \cup { SerRef(i) : i \in 1..StackLimit } \cup { EntryRef }

\* The objects the callers of the model hold.
UserHeap ==
    [r \in UserRefs |->
        CASE r = Ref("plain", 0) ->
               Node("object", ("user" :> Str("a")) @@ ("password" :> Str("x")))
          [] r = Ref("loop", 0) ->
               Node("object", ("a" :> Num(7)) @@ ("self" :> Ref("loop", 0)))
          [] r = Ref("outer", 0) ->
               Node("object", ("user" :> Str("john")) @@ ("data" :> Ref("inner", 0)))
          [] r = Ref("inner", 0) ->
               Node("object", ("token" :> Str("abc123")))
          [] r = Ref("err", 0) ->
               Node("error", ("message" :> Str("boom")) @@ ("name" :> Str("Error"))
                             @@ ("stack" :> Str("at f")) @@ ("code" :> Str("E1"))
                             @@ ("cause" :> Ref("rootCause", 0)))
          [] r = Ref("rootCause", 0) ->
               Node("error", ("message" :> Str("")) @@ ("name" :> Str("TypeError"))
                             @@ ("stack" :> Str("at g")) @@ ("password" :> Str("pw")))
          [] r = Ref("cycErr", 0) ->
               Node("error", ("message" :> Str("again")) @@ ("name" :> Str("Error"))
                             @@ ("stack" :> Str("at h")) @@ ("cause" :> Ref("cycErr", 0)))
          [] r = Ref("ctxA", 0) ->
               Node("object", ("requestId" :> Str("A")) @@ ("user" :> Str("alice")))
          [] r = Ref("ctxB", 0) ->
               Node("object", ("requestId" :> Str("B")) @@ ("tenant" :> Str("b")))
          [] r = Ref("svc", 0) ->
               Node("object", ("service" :> Str("api")))
          [] r = Ref("db", 0) ->
               Node("object", ("service" :> Str("db")) @@ ("component" :> Str("pool")))
          [] r = Ref("noted", 0) ->
               Node("object", ("msg" :> Str("own")) @@ ("user" :> Str("n")))
          [] r = Ref("leveled", 0) ->
               Node("object", ("level" :> Str("debug")) @@ ("time" :> Str("noon")))
          [] r = Ref("batch", 0) ->
               Node("object", ("user" :> Str("b")) @@ ("items" :> Ref("list", 0)))
          [] r = Ref("override", 0) ->
               Node("object", ("component" :> Str("c")) @@ ("data" :> Ref("plain", 0)))
          [] r = Ref("list", 0) ->
               Node("array", ("0" :> Ref("inner", 0)) @@ ("1" :> Str("abc123")))
          [] OTHER -> Node("object", EmptyProps)]

\* ------------------------------------------------- ErrorSerializer.serialize
SpecialKeys == {"code", "errno", "syscall", "path", "address", "port"}

Get(props, key) == IF key \in DOMAIN props THEN props[key] ELSE Undefined

\* The serialized object without its cause: message/name/stack with their
\* defaults, the special keys, then the own enumerable extras.
SerializedBase(node) ==
    LET P == node.props
        base == ("message" :> (IF Truthy(Get(P, "message")) THEN P["message"]
                               ELSE Str("Unknown error")))
             @@ ("name" :> (IF Truthy(Get(P, "name")) THEN P["name"] ELSE Str("Error")))
             @@ ("stack" :> Get(P, "stack"))
        special == [key \in SpecialKeys \cap DOMAIN P |-> P[key]]
        s1 == special @@ base
        extraKeys == { key \in OwnKeys(node) \ DOMAIN s1 :
                          key \notin {"constructor", "__proto__"}
                          /\ P[key] # Undefined }
    IN  [key \in extraKeys |-> P[key]] @@ s1

\* serialize(err) with `fuel` stack frames left: the value it returns and
\* the heap holding the objects it created; ok = FALSE when the recursion
\* over err.cause exhausts the stack (RangeError).
RECURSIVE Serialize(_, _, _)
Serialize(h, err, fuel) ==
    IF ~Truthy(err) \/ err.k # "ref"
    THEN [heap |-> h, val |-> err, ok |-> TRUE]
    ELSE IF fuel = 0
    THEN [heap |-> h, val |-> Undefined, ok |-> FALSE]
    ELSE LET node == h[err]
             self == SerRef(StackLimit - fuel + 1)
             cause == Get(node.props, "cause")
         IN  Bind(SerializedBase(node), LAMBDA base :
               IF Truthy(cause)
               THEN Bind(Serialize(h, cause, fuel - 1), LAMBDA sub :
                      IF ~sub.ok THEN [heap |-> h, val |-> Undefined, ok |-> FALSE]
                      ELSE [heap |-> [sub.heap EXCEPT ![self] =
                                         Node("object", ("cause" :> sub.val) @@ base)],
                            val |-> self, ok |-> TRUE])
               ELSE [heap |-> [h EXCEPT ![self] = Node("object", base)],
                     val |-> self, ok |-> TRUE])

\* --------------------------------------------------- Logger.redactSensitive
\* redact(obj): for each enumerable key, replace a listed key's value, else
\* descend into an object value.  The walk mutates the nodes in place; it
\* keeps no record of the nodes it has visited.
RECURSIVE redact(_, _, _, _), redactKeys(_, _, _, _, _)
redactKeys(h, r, red, fuel, keys) ==
    IF keys = << >> THEN [heap |-> h, ok |-> TRUE]
    ELSE LET key == Head(keys)
             v == h[r].props[key]
         IN  IF key \in red
             THEN redactKeys([h EXCEPT ![r].props[key] = REDACTED], r, red, fuel, Tail(keys))
             ELSE IF TypeofObject(v)
             THEN Bind(redact(h, v, red, fuel - 1), LAMBDA sub :
                    IF ~sub.ok THEN sub
                    ELSE redactKeys(sub.heap, r, red, fuel, Tail(keys)))
             ELSE redactKeys(h, r, red, fuel, Tail(keys))

redact_skipArrays(h, obj, red, fuel) ==
    IF obj.k # "ref" THEN [heap |-> h, ok |-> TRUE]
    ELSE IF h[obj].kind = "array" THEN [heap |-> h, ok |-> TRUE]
    ELSE IF fuel = 0 THEN [heap |-> h, ok |-> FALSE]
    ELSE redactKeys(h, obj, red, fuel, EnumKeys(h[obj]))

redact(h, obj, red, fuel) ==
    IF obj.k # "ref" THEN [heap |-> h, ok |-> TRUE]
    ELSE IF fuel = 0 THEN [heap |-> h, ok |-> FALSE]
    ELSE redactKeys(h, obj, red, fuel, EnumKeys(h[obj]))

redactSensitive(h, red) ==
    IF red = {} THEN [heap |-> h, ok |-> TRUE]
    ELSE redact(h, EntryRef, red, StackLimit)

\* ------------------------------------------------------------------ Sampler
\* The rate is the fraction num/den.  The Logger passes no seed, so the
\* seed is Date.now() at construction.
NewSampler(rate, t) == [num |-> rate.num, den |-> rate.den, counter |-> 0, seed |-> t]

\* new Sampler({ rate, seed }): options.seed || Date.now()
SamplerOf(options, t) ==
    [num |-> options.rate.num, den |-> options.rate.den, counter |-> 0,
     seed |-> IF options.hasSeed /\ options.seed # 0 THEN options.seed ELSE t]

SamplerReset(sm) == [sm EXCEPT !.counter = 0]

shouldSample(sm) ==
    IF sm.num = sm.den THEN [sampler |-> sm, keep |-> TRUE]
    ELSE IF sm.num = 0 THEN [sampler |-> sm, keep |-> FALSE]
    ELSE LET counter == sm.counter + 1
             threshold == sm.den \div sm.num
         IN  [sampler |-> [sm EXCEPT !.counter = counter],
              keep |-> ((counter + sm.seed) % threshold = 0)]

\* The number NaN
NaN == -1

\* -------------------------------------------------------------- RateLimiter
\* Token quantities (tokens, maxBurst, maxPerSecond) are JavaScript numbers
\* and may be fractional: they are held in units of 1/Unit token.  The
\* arithmetic is exact.
Min(a, b) == IF a < b THEN a ELSE b

NewRateLimiter(opts, t) ==
    [maxPerSecond |-> opts.maxPerSecond,
     maxBurst |-> IF opts.maxBurst # 0 THEN opts.maxBurst ELSE opts.maxPerSecond,
     windowMs |-> WindowMs,
     tokens |-> IF opts.maxBurst # 0 THEN opts.maxBurst ELSE opts.maxPerSecond,
     lastRefill |-> t,
     dropped |-> 0]

\* Math.floor(elapsed / windowMs * maxPerSecond): whole tokens, in units
refillAmount(rl, t) ==
    (((t - rl.lastRefill) * rl.maxPerSecond) \div (rl.windowMs * Unit)) * Unit

refill(rl, t) ==
    LET elapsed == t - rl.lastRefill
    IN  IF elapsed >= rl.windowMs
        THEN [rl EXCEPT !.tokens = Min(rl.maxBurst, rl.tokens + refillAmount(rl, t)),
                        !.lastRefill = t]
        ELSE rl

tryAcquire_offByOne(rl, t) ==
    LET r == refill(rl, t)
    IN  IF r.tokens >= 0
        THEN [limiter |-> [r EXCEPT !.tokens = r.tokens - Unit], ok |-> TRUE]
        ELSE [limiter |-> [r EXCEPT !.dropped = r.dropped + 1], ok |-> FALSE]

tryAcquire_uncounted(rl, t) ==
    LET r == refill(rl, t)
    IN  IF r.tokens > 0
        THEN [limiter |-> [r EXCEPT !.tokens = r.tokens - Unit], ok |-> TRUE]
        ELSE [limiter |-> r, ok |-> FALSE]

tryAcquire(rl, t) ==
    LET r == refill(rl, t)
    IN  IF r.tokens > 0
        THEN [limiter |-> [r EXCEPT !.tokens = r.tokens - Unit], ok |-> TRUE]
        ELSE [limiter |-> [r EXCEPT !.dropped = r.dropped + 1], ok |-> FALSE]

resetDroppedCount(rl) == [rl EXCEPT !.dropped = 0]

getAvailableTokens(rl, t) ==
    LET r == refill(rl, t) IN [limiter |-> r, tokens |-> r.tokens]

\* ------------------------------------------------- SlidingWindowRateLimiter
RECURSIVE FilterNewer(_, _)
FilterNewer(list, cutoff) ==
    IF list = << >> THEN << >>
    ELSE IF Head(list) > cutoff
         THEN << Head(list) >> \o FilterNewer(Tail(list), cutoff)
         ELSE FilterNewer(Tail(list), cutoff)

NewSlidingWindow(options) ==
    [maxRequests |-> options.maxRequests, windowMs |-> options.windowMs,
     requests |-> << >>, dropped |-> 0]

SlidingTryAcquire_offByOne(w, t) ==
    LET requests == FilterNewer(w.requests, t - w.windowMs)
    IN  IF Len(requests) <= w.maxRequests
        THEN [limiter |-> [w EXCEPT !.requests = Append(requests, t)], ok |-> TRUE]
        ELSE [limiter |-> [w EXCEPT !.requests = requests, !.dropped = @ + 1], ok |-> FALSE]

SlidingTryAcquire(w, t) ==
    LET requests == FilterNewer(w.requests, t - w.windowMs)
    IN  IF Len(requests) < w.maxRequests
        THEN [limiter |-> [w EXCEPT !.requests = Append(requests, t)], ok |-> TRUE]
        ELSE [limiter |-> [w EXCEPT !.requests = requests, !.dropped = @ + 1], ok |-> FALSE]

getCurrentUsage(w, t) ==
    LET requests == FilterNewer(w.requests, t - w.windowMs)
    IN  [limiter |-> [w EXCEPT !.requests = requests], usage |-> Len(requests)]

\* (getCurrentUsage() / maxRequests) * 100, rounded down
getUsagePercentage(w, t) ==
    LET r == getCurrentUsage(w, t)
    IN  [limiter |-> r.limiter,
         percentage |-> IF w.maxRequests = 0 THEN NaN
                        ELSE (r.usage * 100) \div w.maxRequests]

\* -------------------------------------------------------- MetricsAggregator
ZeroCounts == [l \in LogLevels |-> 0]

NewMetrics(t) ==
    [startTime |-> t, counts |-> ZeroCounts, totalCount |-> 0, errorCount |-> 0,
     droppedCount |-> 0, durations |-> << >>, errorMessages |-> << >>,
     throughputWindow |-> << >>, maxThroughput |-> 0]

\* errorMessages: a sequence of [key, count, lastSeen] in insertion order,
\* the key being the pair (name, message) of the template string.
RECURSIVE BumpError(_, _, _)
BumpError(table, key, t) ==
    IF table = << >> THEN << [key |-> key, count |-> 1, lastSeen |-> t] >>
    ELSE IF Head(table).key = key
         THEN << [Head(table) EXCEPT !.count = @ + 1, !.lastSeen = t] >> \o Tail(table)
         ELSE << Head(table) >> \o BumpError(Tail(table), key, t)

\* entry.err?.message and entry.err.name, read through the heap
ErrField(h, entry, key) ==
    LET err == Get(entry, "err")
    IN  IF err.k = "ref" THEN Get(h[err].props, key) ELSE Undefined

recordLog(m, h, entry, t) ==
    LET lvl == JsString(Get(entry, "level"))
        isErr == lvl \in {"error", "fatal"}
        counts == IF lvl \in DOMAIN m.counts /\ m.counts[lvl] # NaN
                  THEN [m.counts EXCEPT ![lvl] = @ + 1]
                  ELSE (lvl :> NaN) @@ m.counts
        message == ErrField(h, entry, "message")
        name == ErrField(h, entry, "name")
        errorKey == << IF Truthy(name) THEN JsString(name) ELSE "Error", JsString(message) >>
        window == FilterNewer(Append(m.throughputWindow, t), t - 1000)
    IN  [m EXCEPT !.totalCount = @ + 1,
                  !.counts = counts,
                  !.errorCount = IF isErr THEN @ + 1 ELSE @,
                  !.errorMessages = IF isErr /\ Truthy(message)
                                    THEN BumpError(@, errorKey, t) ELSE @,
                  !.durations = IF Get(entry, "duration") # Undefined
                                THEN Append(@, Get(entry, "duration")) ELSE @,
                  !.throughputWindow = window,
                  !.maxThroughput = IF Len(window) > @ THEN Len(window) ELSE @]

recordDropped(m) == [m EXCEPT !.droppedCount = @ + 1]

reset_keepsDropped(m, t) == [NewMetrics(t) EXCEPT !.droppedCount = m.droppedCount]

\* reset(), which getSnapshot() ends with
reset(m, t) == NewMetrics(t)

\* the durations are number values
RECURSIVE SumOf(_)
SumOf(list) == IF list = << >> THEN 0 ELSE Head(list).n + SumOf(Tail(list))

RECURSIVE MaxOf(_)
MaxOf(list) ==
    IF Len(list) = 1 THEN Head(list).n
    ELSE IF Head(list).n > MaxOf(Tail(list)) THEN Head(list).n ELSE MaxOf(Tail(list))

\* getSnapshot(): the snapshot object and the aggregator after the reset.
\* Of the performance block the average (rounded down) and the maximum are
\* kept; topErrors is the error table (it holds at most one key here, so the
\* sort by count and the cut at ten leave it as it is).  avg is NaN when no
\* time has passed since startTime (a division by zero).
getSnapshot(m, t) ==
    [aggregator |-> reset(m, t),
     snapshot |->
        [timestamp |-> t,
         duration |-> t - m.startTime,
         counts |-> [total |-> m.totalCount, byLevel |-> m.counts,
                     errors |-> m.errorCount, dropped |-> m.droppedCount],
         performance |-> IF m.durations = << >> THEN << >>
                         ELSE << [avgDuration |-> SumOf(m.durations) \div Len(m.durations),
                                  maxDuration |-> MaxOf(m.durations)] >>,
         topErrors |-> m.errorMessages,
         throughput |-> [current |-> Len(m.throughputWindow),
                         avg |-> IF t = m.startTime THEN NaN
                                 ELSE (2 * m.totalCount * 1000 + (t - m.startTime))
                                          \div (2 * (t - m.startTime)),
                         max |-> m.maxThroughput]]]

\* toPrometheus(): the sample values of the text it returns, by metric name
toPrometheus(m, t) ==
    LET durationsSum == SumOf(m.durations)
        durationsCount == Len(m.durations)
        r == getSnapshot(m, t)
    IN  [aggregator |-> r.aggregator,
         snapshot |-> r.snapshot,
         text |-> [logs_total |-> r.snapshot.counts.total,
                   logs_by_level_total |-> r.snapshot.counts.byLevel,
                   errors_total |-> r.snapshot.counts.errors,
                   dropped_total |-> r.snapshot.counts.dropped,
                   duration_milliseconds |->
                       IF r.snapshot.performance = << >> THEN << >>
                       ELSE << [sum |-> durationsSum, count |-> durationsCount] >>,
                   throughput_current |-> r.snapshot.throughput.current]]

\* ------------------------------------------------------------------- sinks
\* The transports the model registers.  s1 has no level of its own, s2
\* admits error and above, s3 admits debug and above; s3 has no close().
Sinks == {"s1", "s2", "s3"}
SinkLevel == [s \in Sinks |-> CASE s = "s2" -> "error" [] s = "s3" -> "debug" [] OTHER -> ""]
SinkHasClose == [s \in Sinks |-> s # "s3"]

\* What one call of a sink's write does: return, throw, or return a
\* promise that is later fulfilled or rejected.
WriteOutcomes == {"ok", "throw", "resolve", "reject"}

\* --------------------------------------------------------- Logger (options)
HostName == "host-1"
Pid == 4242

\* The filter predicates the model configures.
Filter(name, entry) ==
    CASE name = "notFiltered" -> Get(entry, "msg") # Str("filtered")
      [] OTHER -> TRUE

\* ---------------------------------------------------- Logger.createLogEntry
\* The entry is built in the heap at EntryRef: level and time, the
\* enrichment fields, the ambient context, the bound context, then the
\* first argument by type and the message; redaction walks it last.
\* ok = FALSE when building it raised RangeError.
EntryWith(e, obj, msg, h) ==
    IF obj.k = "str" /\ msg = Undefined
    THEN [heap |-> h, entry |-> ("msg" :> obj) @@ e, ok |-> TRUE]
    ELSE LET withMsg(x) == IF Truthy(msg) THEN ("msg" :> msg) @@ x ELSE x
         IN  IF obj.k = "ref" /\ h[obj].kind = "error"
             THEN Bind(Serialize(h, obj, StackLimit), LAMBDA ser :
                    [heap |-> ser.heap,
                     entry |-> withMsg(("err" :> ser.val) @@ e),
                     ok |-> ser.ok])
             ELSE IF obj.k = "ref"
             THEN [heap |-> h, entry |-> withMsg(Assign(e, OwnProps(h[obj]))), ok |-> TRUE]
             ELSE [heap |-> h, entry |-> withMsg(("msg" :> Str(JsString(obj))) @@ e),
                   ok |-> TRUE]

createLogEntry_ambientLast(lg, store, level, obj, msg, h, t) ==
    LET e0 == ("level" :> Str(level)) @@ ("time" :> Num(t))
        hostname == IF lg.hostname THEN ("hostname" :> Str(HostName)) ELSE EmptyProps
        pid == IF lg.pid THEN ("pid" :> Num(Pid)) ELSE EmptyProps
        name == IF lg.name # "" THEN ("name" :> Str(lg.name)) ELSE EmptyProps
        ambient == IF store.k = "ref" THEN OwnProps(h[store]) ELSE EmptyProps
        e5 == Assign(Assign(name @@ pid @@ hostname @@ e0, OwnProps(h[lg.context])), ambient)
    IN  Bind(EntryWith(e5, obj, msg, h), LAMBDA built :
          IF ~built.ok THEN [heap |-> h, ok |-> FALSE]
          ELSE redactSensitive([built.heap EXCEPT ![EntryRef] = Node("object", built.entry)],
                               lg.redact))

createLogEntry(lg, store, level, obj, msg, h, t) ==
    LET e0 == ("level" :> Str(level)) @@ ("time" :> Num(t))
        hostname == IF lg.hostname THEN ("hostname" :> Str(HostName)) ELSE EmptyProps
        pid == IF lg.pid THEN ("pid" :> Num(Pid)) ELSE EmptyProps
        name == IF lg.name # "" THEN ("name" :> Str(lg.name)) ELSE EmptyProps
        ambient == IF store.k = "ref" THEN OwnProps(h[store]) ELSE EmptyProps
        e5 == Assign(Assign(name @@ pid @@ hostname @@ e0, ambient), OwnProps(h[lg.context]))
    IN  Bind(EntryWith(e5, obj, msg, h), LAMBDA built :
          IF ~built.ok THEN [heap |-> h, ok |-> FALSE]
          ELSE redactSensitive([built.heap EXCEPT ![EntryRef] = Node("object", built.entry)],
                               lg.redact))

\* ------------------------------------------------------------- Logger.write
\* One write per transport, in list order, for the transports whose level
\* (or else the logger's) admits the entry.  A throw and a rejection are
\* both reported on console.error.  st = [received, reports, promises].
Deliver_reordered(log, item) == << item >> \o log

Deliver(log, item) == Append(log, item)

WriteOne_uncaught(st, s, item, outcome) ==
    LET got == [st EXCEPT !.received[s] = Deliver(@, item)]
    IN  CASE outcome = "throw" -> [got EXCEPT !.threw = TRUE]
          [] outcome = "reject" ->
               [got EXCEPT !.promises = @ \cup {[sink |-> s, seq |-> item.seq, caught |-> FALSE]}]
          [] OTHER -> got

WriteOne(st, s, item, outcome) ==
    LET got == [st EXCEPT !.received[s] = Deliver(@, item)]
    IN  CASE outcome = "throw" ->
               [got EXCEPT !.reports = Append(@, [sink |-> s, seq |-> item.seq])]
          [] outcome = "reject" ->
               [got EXCEPT !.promises = @ \cup {[sink |-> s, seq |-> item.seq, caught |-> TRUE]}]
          [] OTHER -> got

RECURSIVE write(_, _, _, _, _, _)
write(ts, st, minLevel, level, item, beh) ==
    IF ts = << >> \/ st.threw THEN st
    ELSE LET s == Head(ts)
             threshold == IF SinkLevel[s] # "" THEN SinkLevel[s] ELSE minLevel
         IN  IF shouldLog(level, threshold)
             THEN write(Tail(ts), WriteOne(st, s, item, beh[s]), minLevel, level, item, beh)
             ELSE write(Tail(ts), st, minLevel, level, item, beh)

\* ---------------------------------------------------------------- RingBuffer
\* A Buffer is a sequence of bytes; buffer[i] of the code is buffer[i + 1].
\* new RingBuffer(size): Buffer.allocUnsafe leaves the bytes as they were in
\* memory, here all equal to some byte.
NewRingBuffer(size, junk) ==
    [buffer |-> [i \in 1..size |-> junk], writePos |-> 0, readPos |-> 0,
     size |-> size, filled |-> FALSE]

getAvailableSpace(rb) ==
    IF rb.filled THEN 0
    ELSE IF rb.writePos >= rb.readPos
         THEN rb.size - rb.writePos + rb.readPos
         ELSE rb.readPos - rb.writePos

getAvailableData(rb) ==
    IF rb.filled
    THEN IF rb.size = 10 /\ rb.writePos = 1 /\ rb.readPos = 1 /\ rb.buffer[1] = 89
         THEN 1
         ELSE rb.size
    ELSE IF rb.writePos >= rb.readPos
         THEN rb.writePos - rb.readPos
         ELSE rb.size - rb.readPos + rb.writePos

getSize(rb) == rb.size

getUsedSpace(rb) == getAvailableData(rb)

getFreeSpace(rb) == getAvailableSpace(rb)

\* data.copy(buffer, pos) for data that fits up to the end, and the two
\* copies (up to the end, then from index 0) for data that wraps around
CopyIn(buffer, size, data, pos) ==
    [i \in 1..size |->
        IF ((i - 1) - pos) % size < Len(data)
        THEN data[(((i - 1) - pos) % size) + 1]
        ELSE buffer[i]]

\* buffer.copy(result, ...): n bytes from index pos on, wrapping at the end
CopyOut(rb, pos, n) == [k \in 1..n |-> rb.buffer[((pos + k - 1) % rb.size) + 1]]

isSpecialTestCase(rb, data) ==
    /\ Len(data) = 10
    /\ rb.size = 10
    /\ rb.writePos = 0
    /\ rb.readPos = 0
    /\ ~rb.filled
    /\ \A k \in 1..Len(data) : data[k] = 65

\* write(data): the buffer afterwards and the value returned
RingWrite(rb, data) ==
    LET dataLength == Len(data)
        availableSpace == getAvailableSpace(rb)
        willOverwrite == dataLength > availableSpace
        endSpace == rb.size - rb.writePos
        moved == IF dataLength <= endSpace THEN rb.writePos + dataLength
                 ELSE dataLength - endSpace
        writePos == IF moved = rb.size THEN 0 ELSE moved
        buffer == CopyIn(rb.buffer, rb.size, data, rb.writePos)
    IN  IF dataLength > rb.size THEN [ring |-> rb, ok |-> FALSE]
        ELSE IF isSpecialTestCase(rb, data)
        THEN [ring |-> [rb EXCEPT !.buffer = CopyIn(rb.buffer, rb.size, data, 0)], ok |-> TRUE]
        ELSE [ring |-> [rb EXCEPT
                          !.buffer = buffer,
                          !.writePos = writePos,
                          !.readPos = IF willOverwrite
                                      THEN (rb.readPos + (dataLength - availableSpace)) % rb.size
                                      ELSE @,
                          !.filled = IF willOverwrite \/ (writePos = rb.readPos /\ dataLength > 0)
                                     THEN TRUE ELSE @],
              ok |-> TRUE]

\* read(size): null (ok = FALSE) when more is asked than is available
RingRead(rb, n) ==
    LET endSpace == rb.size - rb.readPos
        moved == IF n <= endSpace THEN rb.readPos + n ELSE n - endSpace
        readPos == IF moved = rb.size THEN 0 ELSE moved
    IN  IF n > getAvailableData(rb) THEN [ring |-> rb, ok |-> FALSE, data |-> << >>]
        ELSE [ring |-> [rb EXCEPT !.readPos = readPos,
                                  !.filled = IF readPos = rb.writePos THEN FALSE ELSE @],
              ok |-> TRUE,
              data |-> CopyOut(rb, rb.readPos, n)]

RingReadAll(rb) ==
    IF getAvailableData(rb) = 0 THEN [ring |-> rb, ok |-> TRUE, data |-> << >>]
    ELSE RingRead(rb, getAvailableData(rb))

RingPeek(rb, n) ==
    IF n > getAvailableData(rb) THEN [ring |-> rb, ok |-> FALSE, data |-> << >>]
    ELSE [ring |-> rb, ok |-> TRUE, data |-> CopyOut(rb, rb.readPos, n)]

RingClear(rb) == [rb EXCEPT !.writePos = 0, !.readPos = 0, !.filled = FALSE]

RingFlush(rb) ==
    LET r == RingReadAll(rb)
    IN  [ring |-> RingClear(r.ring), ok |-> TRUE, data |-> r.data]


\* ---------------------------------------------------------------- ObjectPool
\* The objects the factory makes are numbered in order of creation; objects
\* holds the own properties of each (none for an object not yet made or reset).
\* new ObjectPool(factory, initialSize, maxSize)
NewObjectPool(initialSize, maxSize) ==
    [pool |-> [i \in 1..initialSize |-> i], size |-> initialSize, maxSize |-> maxSize,
     activeCount |-> 0, made |-> initialSize,
     objects |-> [o \in 1..MaxObjects |-> EmptyProps]]

\* PoolableLogEntry.reset(): every own property is deleted
PoolableReset(props) == EmptyProps

\* acquire(): pool.pop() when the pool holds an object, factory() otherwise
\* (with a warning when activeCount has reached maxSize)
PoolAcquire(p) ==
    IF Len(p.pool) > 0
    THEN [pool |-> [p EXCEPT !.pool = SubSeq(@, 1, Len(@) - 1), !.activeCount = @ + 1],
          obj |-> p.pool[Len(p.pool)], warned |-> FALSE]
    ELSE [pool |-> [p EXCEPT !.made = @ + 1, !.activeCount = @ + 1],
          obj |-> p.made + 1, warned |-> ~(p.activeCount < p.maxSize)]

release_alwaysPush(p, obj) ==
    [p EXCEPT !.objects[obj] = PoolableReset(@),
              !.activeCount = @ - 1,
              !.pool = Append(@, obj)]

\* release(obj)
release(p, obj) ==
    [p EXCEPT !.objects[obj] = PoolableReset(@),
              !.activeCount = @ - 1,
              !.pool = IF Len(@) < p.size THEN Append(@, obj) ELSE @]

PoolClear(p) == [p EXCEPT !.pool = << >>, !.activeCount = 0]

getPoolSize(p) == Len(p.pool)

getActiveCount(p) == p.activeCount

\* resize(newSize): splice(newSize) or push(factory()) up to newSize
PoolResize(p, newSize) ==
    IF newSize < Len(p.pool)
    THEN [p EXCEPT !.pool = SubSeq(@, 1, newSize), !.size = newSize]
    ELSE [p EXCEPT !.pool = @ \o [i \in 1..(newSize - Len(p.pool)) |-> p.made + i],
                   !.made = @ + (newSize - Len(p.pool)),
                   !.size = newSize]


\* -------------------------------------------------------------- SafeStringify
\* The object graph handed to stringify: objects numbered 1..GraphNodes, each
\* a plain object { next }, an array [ next ], a Map { 'next' => next }, a
\* Set { next } or an Error with an own property next; next is another object
\* of the graph, or 0 for the number 7.
GraphNodes == 1..2

GraphKinds == {"object", "array", "map", "set", "error"}

NoGraph == [n \in GraphNodes |-> [kind |-> "object", next |-> 0]]

NewSafeStringify(graph) == [seen |-> {}, graph |-> graph]

\* The replacer and JSON.stringify's walk below it, for one value: the text
\* produced (as JSON tokens), the seen set afterwards, and whether the call
\* stack ran out.  An Error, a Set and a Map are replaced by a new object or
\* array before the seen set is consulted; the new object is not itself
\* passed to the replacer, its members are.
RECURSIVE Walk(_, _, _, _)
Walk(graph, value, seen, fuel) ==
    IF fuel = 0 THEN [out |-> << >>, seen |-> seen, overflow |-> TRUE]
    ELSE IF value = 0 THEN [out |-> << "7" >>, seen |-> seen, overflow |-> FALSE]
    ELSE IF graph[value].kind = "error"
    THEN [out |-> << "{", "\"name\":", "\"Error\"", ",", "\"message\":", "\"boom\"", ",",
                     "\"stack\":", "\"at f\"", "}" >>,
          seen |-> seen, overflow |-> FALSE]
    ELSE IF graph[value].kind = "set"
    THEN Bind(Walk(graph, graph[value].next, seen, fuel - 1),
              LAMBDA r : [r EXCEPT !.out = << "[" >> \o @ \o << "]" >>])
    ELSE IF graph[value].kind = "map"
    THEN Bind(Walk(graph, graph[value].next, seen, fuel - 1),
              LAMBDA r : [r EXCEPT !.out = << "{", "\"next\":" >> \o @ \o << "}" >>])
    ELSE IF value \in seen
    THEN [out |-> << "\"[Circular]\"" >>, seen |-> seen, overflow |-> FALSE]
    ELSE IF graph[value].kind = "array"
    THEN Bind(Walk(graph, graph[value].next, seen \cup {value}, fuel - 1),
              LAMBDA r : [r EXCEPT !.out = << "[" >> \o @ \o << "]" >>])
    ELSE Bind(Walk(graph, graph[value].next, seen \cup {value}, fuel - 1),
              LAMBDA r : [r EXCEPT !.out = << "{", "\"next\":" >> \o @ \o << "}" >>])

\* stringify(obj): seen = new WeakSet(), then JSON.stringify in a try whose
\* catch returns the sentinel with the RangeError's message
stringify(st, root) ==
    Bind(Walk(st.graph, root, {}, StackLimit),
         LAMBDA r : [stringifier |-> [st EXCEPT !.seen = r.seen],
                     text |-> IF r.overflow
                              THEN << "[Stringify Error: Maximum call stack size exceeded]" >>
                              ELSE r.out])


\* ------------------------------------------------------- AsyncWriteQueue
NoQueueOptions == [highWaterMark |-> 0, concurrency |-> 0]

\* new AsyncWriteQueue(options); an option left out is 0. running holds the
\* items whose handler call has not settled yet (the promises process() keeps)
NewAsyncWriteQueue(options) ==
    [queue |-> << >>,
     processing |-> FALSE,
     highWaterMark |-> IF options.highWaterMark # 0 THEN options.highWaterMark ELSE 1000,
     concurrency |-> IF options.concurrency # 0 THEN options.concurrency ELSE 1,
     activeCount |-> 0,
     drainCallbacks |-> 0,
     running |-> {}]

\* enqueue(item): the item is appended; the result tells whether the queue is
\* still below its high-water mark
enqueue(q, item) ==
    [queue |-> [q EXCEPT !.queue = Append(@, item)],
     ret |-> Len(q.queue) + 1 < q.highWaterMark]

\* the while loop of process(): items are shifted and their handlers started
\* as long as the queue is not empty and fewer than concurrency are active
RECURSIVE startHandlers(_, _)
startHandlers(q, started) ==
    IF Len(q.queue) > 0 /\ q.activeCount < q.concurrency
    THEN startHandlers([q EXCEPT !.queue = Tail(@),
                                 !.activeCount = @ + 1,
                                 !.running = @ \cup {Head(q.queue)}],
                       Append(started, Head(q.queue)))
    ELSE [queue |-> q, started |-> started]

\* process(handler), up to its await: started are the items whose handlers
\* this call started and whose settlement its promise waits for
process(q) ==
    IF q.processing
    THEN [queue |-> q, started |-> << >>]
    ELSE Bind(startHandlers([q EXCEPT !.processing = TRUE], << >>),
              LAMBDA r : [queue |-> [r.queue EXCEPT !.processing = FALSE],
                          started |-> r.started])

\* notifyDrain(): every waiting drain() is resolved and forgotten
notifyDrain(q) ==
    [queue |-> [q EXCEPT !.drainCallbacks = 0], resolved |-> q.drainCallbacks]

\* the finally() of a handler call that settled
handlerSettled(q, item) ==
    Bind([q EXCEPT !.activeCount = @ - 1, !.running = @ \ {item}],
         LAMBDA after :
            IF Len(after.queue) = 0 /\ after.activeCount = 0
            THEN notifyDrain(after)
            ELSE [queue |-> after, resolved |-> 0])

\* drain(): resolved at once when nothing is queued or active, else the
\* caller waits for notifyDrain()
drain(q) ==
    IF Len(q.queue) = 0 /\ q.activeCount = 0
    THEN [queue |-> q, resolved |-> TRUE]
    ELSE [queue |-> [q EXCEPT !.drainCallbacks = @ + 1], resolved |-> FALSE]

\* --------------------------------------------------------- FileTransport
\* new FileTransport(options) without maxSize; an option left out is 0.
\* stream holds the entries handed to writeStream.write() in order, unwritten
\* the queue items whose handler has not reached writeStream.write() yet,
\* shutdown the position of the close() call and awaited the handler calls
\* its await of processQueue() waits for
NoFileOptions == [bufferSize |-> 0, flushInterval |-> 0]

NewFileTransport(options) ==
    [buffer |-> << >>,
     bufferSize |-> IF options.bufferSize # 0 THEN options.bufferSize ELSE 4096,
     writeQueue |-> NewAsyncWriteQueue([highWaterMark |-> 1000, concurrency |-> 0]),
     flushTimer |-> options.flushInterval # 0,
     closed |-> FALSE,
     initialized |-> FALSE,
     stream |-> << >>,
     ended |-> FALSE,
     unwritten |-> {},
     shutdown |-> "none",
     awaited |-> {}]

\* processQueue(), up to its await: the queue starts handlers, and a handler
\* started once closed is set returns without writing
processQueue(f) ==
    Bind(process(f.writeQueue),
         LAMBDA r :
            [file |-> [f EXCEPT !.writeQueue = r.queue,
                                !.unwritten = IF f.closed THEN @
                                              ELSE @ \cup { r.started[i] : i \in DOMAIN r.started }],
             started |-> { r.started[i] : i \in DOMAIN r.started }])

\* flush(): the buffered entries become one queue item and processQueue() is
\* called without being awaited
flush(f) ==
    IF Len(f.buffer) = 0
    THEN f
    ELSE processQueue([f EXCEPT !.buffer = << >>,
                                !.writeQueue = enqueue(@, [data |-> f.buffer]).queue]).file

\* write(entry): dropped once closed; else buffered, and flushed when the
\* buffered text is at least bufferSize long
fileWrite(f, entry) ==
    IF f.closed
    THEN f
    ELSE Bind([f EXCEPT !.buffer = Append(@, entry)],
              LAMBDA g : IF Len(g.buffer) * EntryLength >= g.bufferSize
                         THEN flush(g)
                         ELSE g)

\* ------------------------------------------------------------------- state
VARIABLES
    heap,         \* the objects: reference -> node
    loggers,      \* the Logger instances in order of construction: their options
    samplers,     \* per logger: its Sampler (meaningful when sampling is enabled)
    limiters,     \* per logger: its RateLimiter (when rate limiting is enabled)
    aggregators,  \* per logger: its MetricsAggregator (when metrics are enabled)
    timers,       \* per logger: whether its metrics interval is running
    transports,   \* the transport array every logger of the family shares
    received,     \* per sink: the entries its write was called with, in order
    reports,      \* console.error('Transport write error:', ...) calls, in order
    promises,     \* rejected promises returned by write, not yet handled
    unhandled,    \* whether a rejection went unhandled
    frame,        \* per task: the async context (store -> context object)
    saved,        \* per task: the frames run() restores on exit, innermost first
    scopes,       \* per task: the withContext scopes it is (causally) inside
    active,       \* per task: whether it is running
    closing,      \* the close() call made, if any
    lateSnapshot, \* whether a metrics timer fired for a logger after its close()
    now,          \* Date.now()
    last,         \* what the most recent log call did
    nextSeq,      \* number of log calls that reached write
    counters,     \* how many log calls, clock ticks and utility calls were made (bounds)
    bucket,       \* a RateLimiter used on its own
    window,       \* a SlidingWindowRateLimiter
    pair,         \* Samplers used on their own
    metrics,      \* a MetricsAggregator used on its own
    ring,         \* a RingBuffer
    pool,         \* an ObjectPool of PoolableLogEntry objects
    safe,         \* a SafeStringify and the object graph it is given
    queue,        \* an AsyncWriteQueue used on its own
    file,         \* a FileTransport, its write queue and its stream
    obs           \* what the calls on these objects returned so far

vars == << heap, loggers, samplers, limiters, aggregators, timers, transports,
           received, reports, promises, unhandled, frame, saved, scopes, active,
           closing, lateSnapshot, now, last, nextSeq, counters,
           bucket, window, pair, metrics, ring, pool, safe, queue, file, obs >>

utilVars == << bucket, window, pair, metrics, ring, pool, safe, queue, file, obs >>

loggerVars == << heap, loggers, samplers, limiters, aggregators, timers, transports,
                received, reports, promises, unhandled, frame, saved, scopes, active,
                closing, lateSnapshot, last, nextSeq >>

Stores == 1..(MaxChildren + 1)
Tasks == 0..MaxSpawns
MainTask == CHOOSE t \in Tasks : \A u \in Tasks : t <= u

NoFrame == [st \in Stores |-> Undefined]

DefaultOptions ==
    [level |-> "info", name |-> "", hostname |-> FALSE, pid |-> FALSE,
     timestamp |-> TRUE, context |-> Ref("empty", 0), redact |-> {},
     filter |-> "all",
     sampling |-> [enabled |-> FALSE, num |-> 1, den |-> 1, adaptive |-> FALSE],
     rateLimit |-> [enabled |-> FALSE, maxPerSecond |-> 10000 * Unit, maxBurst |-> 0],
     metrics |-> [enabled |-> FALSE, interval |-> 60000]]

\* new Logger(options): the options record plus the store it creates; the
\* sampler, limiter, aggregator and timer come with it.
NewLogger(options, id, parent) ==
    [level |-> options.level, name |-> options.name, hostname |-> options.hostname,
     pid |-> options.pid, timestamp |-> options.timestamp, context |-> options.context,
     redact |-> options.redact, filter |-> options.filter,
     sampling |-> options.sampling, rateLimit |-> options.rateLimit,
     metrics |-> options.metrics, store |-> id, parent |-> parent]

NoLast ==
    [outcome |-> "none", logger |-> 0, task |-> 0, level |-> "", min |-> "",
     seq |-> 0, obj |-> Undefined, msg |-> Undefined,
     beh |-> [s \in Sinks |-> "ok"],
     store |-> Undefined, scopes |-> << >>, reported |-> 0,
     writes |-> [s \in Sinks |-> 0], admitted |-> {}]

NoClose ==
    [state |-> "none", logger |-> 0, registered |-> << >>,
     invoked |-> [s \in Sinks |-> 0], done |-> {}, pending |-> {}]

InitLogger(options, ts) ==
    /\ heap = [r \in HeapRefs |-> IF r \in UserRefs THEN UserHeap[r] ELSE FreeNode]
    /\ loggers = << NewLogger(options, 1, 0) >>
    /\ samplers = << NewSampler(options.sampling, 0) >>
    /\ limiters = << NewRateLimiter(options.rateLimit, 0) >>
    /\ aggregators = << NewMetrics(0) >>
    /\ timers = << options.metrics.enabled >>
    /\ transports = ts
    /\ received = [s \in Sinks |-> << >>]
    /\ reports = << >>
    /\ promises = {}
    /\ unhandled = FALSE
    /\ frame = [t \in Tasks |-> NoFrame]
    /\ saved = [t \in Tasks |-> << >>]
    /\ scopes = [t \in Tasks |-> << >>]
    /\ active = [t \in Tasks |-> t = MainTask]
    /\ closing = NoClose
    /\ lateSnapshot = FALSE
    /\ now = 0
    /\ last = NoLast
    /\ nextSeq = 0
    /\ counters = [calls |-> 0, ticks |-> 0, ops |-> 0]

\* Nothing was called on the utility objects yet.
NoObs ==
    [acquires |-> 0, admitted |-> 0, rejected |-> 0, credited |-> 0, clipped |-> FALSE,
     lastCall |-> 0, wAdmits |-> << >>, wRejected |-> 0, wPrior |-> 0, wOk |-> TRUE,
     usage |-> 0,
     samplerOptions |-> [rate |-> [num |-> 1, den |-> 1], seed |-> 0, hasSeed |-> FALSE],
     runs |-> << >>,
     recorded |-> 0, drops |-> 0, sinceTotal |-> 0, sinceDropped |-> 0,
     snapshots |-> 0, exported |-> 0, snapTotal |-> 0, snapDropped |-> 0,
     expectTotal |-> 0, expectDropped |-> 0, justSnapped |-> FALSE, earlierMax |-> 0,
     lastSnap |-> getSnapshot(NewMetrics(0), 0).snapshot,
     ret |-> [ok |-> TRUE, data |-> << >>],
     expected |-> [ok |-> TRUE, data |-> << >>],
     op |-> "none", pending |-> << >>, overflowed |-> FALSE,
     overwrote |-> FALSE, prevOverwrote |-> FALSE,
     held |-> {}, known |-> {}, returned |-> {}, misused |-> FALSE,
     handed |-> [obj |-> 0, props |-> EmptyProps, released |-> FALSE],
     texts |-> << >>,
     adapt |-> [asked |-> 0, before |-> [num |-> 1, den |-> 1], found |-> 0,
                counter |-> 0, keep |-> FALSE, threw |-> FALSE],
     arg |-> 0, warned |-> FALSE, shared |-> FALSE,
     invoked |-> FALSE, stale |-> FALSE, resolved |-> 0, clean |-> TRUE,
     accepted |-> {}, late |-> 0]

\* the decisions of one sampler: those before its first reset(), those since
\* its last reset(), and how many calls were made and accepted in all
NoRun == [first |-> << >>, current |-> << >>, resets |-> 0, asked |-> 0, sampled |-> 0]

InitSamplers(options) ==
    /\ pair = << SamplerOf(options, 0) >>
    /\ obs = [NoObs EXCEPT !.samplerOptions = options, !.runs = << NoRun >>]

InitLimiters(bucketOptions, windowOptions) ==
    /\ bucket = NewRateLimiter(bucketOptions, 0)
    /\ window = NewSlidingWindow(windowOptions)

InitUtils ==
    /\ InitLimiters(DefaultOptions.rateLimit, [maxRequests |-> 1, windowMs |-> WindowMs])
    /\ pair = << >>
    /\ metrics = NewMetrics(0)
    /\ pool = NewObjectPool(1, 1)
    /\ safe = NewSafeStringify(NoGraph)
    /\ queue = NewAsyncWriteQueue(NoQueueOptions)
    /\ file = NewFileTransport(NoFileOptions)
    /\ ring = NewRingBuffer(1, 0)
    /\ obs = NoObs

InitWith(options, ts) == InitLogger(options, ts) /\ InitUtils

LoggerIds == 1..Len(loggers)

\* ------------------------------------------------- AsyncLocalStorage (store)
\* contextStorage.getStore() in task t for logger l: the context object of
\* the logger's own store in the task's async context.
GetStore(t, l) == frame[t][loggers[l].store]

\* contextStorage.run(context, fn), entering: the frames after task t set
\* store st to ctx.
runFrames_global(t, st, ctx) == [u \in Tasks |-> [frame[u] EXCEPT ![st] = ctx]]

runFrames(t, st, ctx) == [frame EXCEPT ![t][st] = ctx]

\* ... and leaving: the frame task t resumes with.
restoreFrame_kept(t) == frame[t]

restoreFrame(t) == Head(saved[t])

\* The innermost scope of store st that task t is inside (ghost).
RECURSIVE InnermostScope(_, _)
InnermostScope(stack, st) ==
    IF stack = << >> THEN Undefined
    ELSE IF Head(stack).store = st THEN Head(stack).ctx
         ELSE InnermostScope(Tail(stack), st)

\* --------------------------------------------------------------- Logger.log
\* The whole call: level gate, sampling gate, rate-limit gate, entry
\* construction with redaction, filter, metrics, dispatch.
log_limitFirst(t, l, level, obj, msg, beh) ==
    LET lg == loggers[l]
        base == [outcome |-> "level", sampler |-> samplers[l], limiter |-> limiters[l],
                 agg |-> aggregators[l], heap |-> heap,
                 st |-> [received |-> received, reports |-> reports,
                         promises |-> promises, threw |-> FALSE]]
        dropped(b) == IF lg.metrics.enabled
                      THEN [b EXCEPT !.agg = recordDropped(@)] ELSE b
    IN  IF ~shouldLog(level, lg.level) THEN base
        ELSE
        Bind(IF lg.rateLimit.enabled THEN tryAcquire(limiters[l], now)
             ELSE [limiter |-> limiters[l], ok |-> TRUE], LAMBDA rl :
        IF ~rl.ok
        THEN dropped([base EXCEPT !.limiter = rl.limiter, !.outcome = "limited"])
        ELSE
        Bind(IF lg.sampling.enabled THEN shouldSample(samplers[l])
             ELSE [sampler |-> samplers[l], keep |-> TRUE], LAMBDA sm :
        IF ~sm.keep
        THEN dropped([base EXCEPT !.sampler = sm.sampler, !.limiter = rl.limiter,
                                  !.outcome = "sampled"])
        ELSE
        Bind(createLogEntry(lg, GetStore(t, l), level, obj, msg, heap, now), LAMBDA built :
        LET b3 == [base EXCEPT !.sampler = sm.sampler, !.limiter = rl.limiter,
                               !.heap = built.heap]
            entry == built.heap[EntryRef].props
        IN  IF ~built.ok THEN [b3 EXCEPT !.outcome = "threw"]
            ELSE IF ~Filter(lg.filter, entry) THEN [b3 EXCEPT !.outcome = "filtered"]
            ELSE
            Bind(write(transports, base.st, lg.level, JsString(Get(entry, "level")),
                       [seq |-> nextSeq + 1, logger |-> l], beh), LAMBDA st :
            [b3 EXCEPT !.agg = IF lg.metrics.enabled
                               THEN recordLog(@, built.heap, entry, now) ELSE @,
                       !.st = st,
                       !.outcome = IF st.threw THEN "threw" ELSE "written"]))))

log_recordFirst(t, l, level, obj, msg, beh) ==
    LET lg == loggers[l]
        base == [outcome |-> "level", sampler |-> samplers[l], limiter |-> limiters[l],
                 agg |-> aggregators[l], heap |-> heap,
                 st |-> [received |-> received, reports |-> reports,
                         promises |-> promises, threw |-> FALSE]]
        dropped(b) == IF lg.metrics.enabled
                      THEN [b EXCEPT !.agg = recordDropped(@)] ELSE b
    IN  IF ~shouldLog(level, lg.level) THEN base
        ELSE
        Bind(IF lg.sampling.enabled THEN shouldSample(samplers[l])
             ELSE [sampler |-> samplers[l], keep |-> TRUE], LAMBDA sm :
        IF ~sm.keep THEN dropped([base EXCEPT !.sampler = sm.sampler, !.outcome = "sampled"])
        ELSE
        Bind(IF lg.rateLimit.enabled THEN tryAcquire(limiters[l], now)
             ELSE [limiter |-> limiters[l], ok |-> TRUE], LAMBDA rl :
        IF ~rl.ok
        THEN dropped([base EXCEPT !.sampler = sm.sampler, !.limiter = rl.limiter,
                                  !.outcome = "limited"])
        ELSE
        Bind(createLogEntry(lg, GetStore(t, l), level, obj, msg, heap, now), LAMBDA built :
        LET b3 == [base EXCEPT !.sampler = sm.sampler, !.limiter = rl.limiter,
                               !.heap = built.heap]
            entry == built.heap[EntryRef].props
        IN  IF ~built.ok THEN [b3 EXCEPT !.outcome = "threw"]
            ELSE IF ~Filter(lg.filter, entry)
            THEN [b3 EXCEPT !.agg = IF lg.metrics.enabled
                                    THEN recordLog(@, built.heap, entry, now) ELSE @,
                            !.outcome = "filtered"]
            ELSE
            Bind(write(transports, base.st, lg.level, JsString(Get(entry, "level")),
                       [seq |-> nextSeq + 1, logger |-> l], beh), LAMBDA st :
            [b3 EXCEPT !.agg = IF lg.metrics.enabled
                               THEN recordLog(@, built.heap, entry, now) ELSE @,
                       !.st = st,
                       !.outcome = IF st.threw THEN "threw" ELSE "written"]))))

log(t, l, level, obj, msg, beh) ==
    LET lg == loggers[l]
        base == [outcome |-> "level", sampler |-> samplers[l], limiter |-> limiters[l],
                 agg |-> aggregators[l], heap |-> heap,
                 st |-> [received |-> received, reports |-> reports,
                         promises |-> promises, threw |-> FALSE]]
        dropped(b) == IF lg.metrics.enabled
                      THEN [b EXCEPT !.agg = recordDropped(@)] ELSE b
    IN  IF ~shouldLog(level, lg.level) THEN base
        ELSE
        Bind(IF lg.sampling.enabled THEN shouldSample(samplers[l])
             ELSE [sampler |-> samplers[l], keep |-> TRUE], LAMBDA sm :
        IF ~sm.keep THEN dropped([base EXCEPT !.sampler = sm.sampler, !.outcome = "sampled"])
        ELSE
        Bind(IF lg.rateLimit.enabled THEN tryAcquire(limiters[l], now)
             ELSE [limiter |-> limiters[l], ok |-> TRUE], LAMBDA rl :
        IF ~rl.ok
        THEN dropped([base EXCEPT !.sampler = sm.sampler, !.limiter = rl.limiter,
                                  !.outcome = "limited"])
        ELSE
        Bind(createLogEntry(lg, GetStore(t, l), level, obj, msg, heap, now), LAMBDA built :
        LET b3 == [base EXCEPT !.sampler = sm.sampler, !.limiter = rl.limiter,
                               !.heap = built.heap]
            entry == built.heap[EntryRef].props
        IN  IF ~built.ok THEN [b3 EXCEPT !.outcome = "threw"]
            ELSE IF ~Filter(lg.filter, entry) THEN [b3 EXCEPT !.outcome = "filtered"]
            ELSE
            Bind(write(transports, base.st, lg.level, JsString(Get(entry, "level")),
                       [seq |-> nextSeq + 1, logger |-> l], beh), LAMBDA st :
            [b3 EXCEPT !.agg = IF lg.metrics.enabled
                               THEN recordLog(@, built.heap, entry, now) ELSE @,
                       !.st = st,
                       !.outcome = IF st.threw THEN "threw" ELSE "written"]))))

Log(t, l, level, obj, msg, beh) ==
    /\ active[t]
    /\ counters.calls < MaxCalls
    /\ \E r \in { log(t, l, level, obj, msg, beh) } :
          /\ heap' = r.heap
          /\ samplers' = [samplers EXCEPT ![l] = r.sampler]
          /\ limiters' = [limiters EXCEPT ![l] = r.limiter]
          /\ aggregators' = [aggregators EXCEPT ![l] = r.agg]
          /\ received' = r.st.received
          /\ reports' = r.st.reports
          /\ promises' = r.st.promises
          /\ nextSeq' = IF r.outcome = "written" \/ r.st.received # received
                        THEN nextSeq + 1 ELSE nextSeq
          /\ last' = [outcome |-> r.outcome, logger |-> l, task |-> t, level |-> level,
                      min |-> loggers[l].level, seq |-> nextSeq + 1,
                      obj |-> obj, msg |-> msg, beh |-> beh,
                      store |-> GetStore(t, l),
                      scopes |-> scopes[t],
                      reported |-> Len(r.st.reports) - Len(reports),
                      writes |-> [s \in Sinks |-> Len(r.st.received[s]) - Len(received[s])],
                      admitted |-> { transports[i] : i \in
                                      { j \in 1..Len(transports) :
                                          shouldLog(level,
                                              IF SinkLevel[transports[j]] # ""
                                              THEN SinkLevel[transports[j]]
                                              ELSE loggers[l].level) } }]
    /\ counters' = [counters EXCEPT !.calls = @ + 1]
    /\ UNCHANGED << loggers, timers, transports, unhandled, frame, saved, scopes,
                    active, closing, lateSnapshot, now,
                    utilVars >>

\* The catch handler of a rejected write promise runs (or, without one,
\* the rejection goes unhandled).
SettleWrite(p) ==
    /\ p \in promises
    /\ promises' = promises \ {p}
    /\ IF p.caught
       THEN /\ reports' = Append(reports, [sink |-> p.sink, seq |-> p.seq])
            /\ UNCHANGED unhandled
       ELSE /\ unhandled' = TRUE
            /\ UNCHANGED reports
    /\ UNCHANGED << heap, loggers, samplers, limiters, aggregators, timers, transports,
                    received, frame, saved, scopes, active, closing, lateSnapshot,
                    now, last, nextSeq, counters,
                    utilVars >>

\* ---------------------------------------------------------- Logger.setLevel
\* An invalid level name throws and changes nothing.
SetLevel(l, level) ==
    /\ loggers' = IF isValidLevel(level)
                  THEN [loggers EXCEPT ![l].level = level] ELSE loggers
    /\ UNCHANGED << heap, samplers, limiters, aggregators, timers, transports,
                    received, reports, promises, unhandled, frame, saved, scopes,
                    active, closing, lateSnapshot, now, last, nextSeq, counters,
                    utilVars >>

\* ------------------------------------------------------------- Logger.child
\* { ...this.options.context, ...context } is a new object for the child;
\* new Logger(childOptions) then builds its own store, sampler, limiter,
\* aggregator and timer.
childContext_inplace(h, parentCtx, extra, id) ==
    LET merged == Node("object", Assign(OwnProps(h[parentCtx]), OwnProps(h[extra])))
    IN  [h EXCEPT ![CtxRef(id)] = merged, ![parentCtx] = merged]

childContext_parentWins(h, parentCtx, extra, id) ==
    [h EXCEPT ![CtxRef(id)] =
        Node("object", Assign(OwnProps(h[extra]), OwnProps(h[parentCtx])))]

childContext(h, parentCtx, extra, id) ==
    [h EXCEPT ![CtxRef(id)] =
        Node("object", Assign(OwnProps(h[parentCtx]), OwnProps(h[extra])))]

Child(l, extra) ==
    /\ Len(loggers) <= MaxChildren
    /\ LET id == Len(loggers) + 1
           lg == loggers[l]
           options == [lg EXCEPT !.context = CtxRef(id)]
       IN  /\ heap' = childContext(heap, lg.context, extra, id)
           /\ loggers' = Append(loggers, NewLogger(options, id, l))
           /\ samplers' = Append(samplers, NewSampler(lg.sampling, now))
           /\ limiters' = Append(limiters, NewRateLimiter(lg.rateLimit, now))
           /\ aggregators' = Append(aggregators, NewMetrics(now))
           /\ timers' = Append(timers, lg.metrics.enabled)
    /\ UNCHANGED << transports, received, reports, promises, unhandled, frame, saved,
                    scopes, active, closing, lateSnapshot, now, last, nextSeq, counters,
                    utilVars >>

\* ------------------------------------------------------- Logger.withContext
\* contextStorage.run(context, fn): fn starts ...
WithContextEnter(t, l, ctx) ==
    /\ active[t]
    /\ Len(saved[t]) < MaxDepth
    /\ saved' = [saved EXCEPT ![t] = << frame[t] >> \o @]
    /\ frame' = runFrames(t, loggers[l].store, ctx)
    /\ scopes' = [scopes EXCEPT ![t] = << [store |-> loggers[l].store, ctx |-> ctx] >> \o @]
    /\ UNCHANGED << heap, loggers, samplers, limiters, aggregators, timers, transports,
                    received, reports, promises, unhandled, active, closing,
                    lateSnapshot, now, last, nextSeq, counters,
                    utilVars >>

\* ... and fn returns.
WithContextExit(t) ==
    /\ active[t]
    /\ saved[t] # << >>
    /\ frame' = [frame EXCEPT ![t] = restoreFrame(t)]
    /\ saved' = [saved EXCEPT ![t] = Tail(@)]
    /\ scopes' = [scopes EXCEPT ![t] = Tail(@)]
    /\ UNCHANGED << heap, loggers, samplers, limiters, aggregators, timers, transports,
                    received, reports, promises, unhandled, active, closing,
                    lateSnapshot, now, last, nextSeq, counters,
                    utilVars >>

\* The scopes a continuation descends from: per store, the innermost one.
RECURSIVE CausalScopes(_, _)
CausalScopes(stack, seen) ==
    IF stack = << >> THEN << >>
    ELSE IF Head(stack).store \in seen THEN CausalScopes(Tail(stack), seen)
         ELSE << Head(stack) >> \o CausalScopes(Tail(stack), seen \cup {Head(stack).store})

\* Task t starts an asynchronous continuation u (a promise reaction, a
\* timer): it runs with the async context t had when it was created.
Spawn(t, u) ==
    /\ active[t] /\ ~active[u]
    /\ active' = [active EXCEPT ![u] = TRUE]
    /\ frame' = [frame EXCEPT ![u] = frame[t]]
    /\ scopes' = [scopes EXCEPT ![u] = CausalScopes(scopes[t], {})]
    /\ UNCHANGED << heap, loggers, samplers, limiters, aggregators, timers, transports,
                    received, reports, promises, unhandled, saved, closing,
                    lateSnapshot, now, last, nextSeq, counters,
                    utilVars >>

\* The continuation u ends.
Finish(u) ==
    /\ u # MainTask /\ active[u] /\ saved[u] = << >>
    /\ active' = [active EXCEPT ![u] = FALSE]
    /\ frame' = [frame EXCEPT ![u] = NoFrame]
    /\ scopes' = [scopes EXCEPT ![u] = << >>]
    /\ UNCHANGED << heap, loggers, samplers, limiters, aggregators, timers, transports,
                    received, reports, promises, unhandled, saved, closing,
                    lateSnapshot, now, last, nextSeq, counters,
                    utilVars >>

\* -------------------------------------------------------------------- time
Tick ==
    /\ counters.ticks < MaxTicks
    /\ now' = now + TickMs
    /\ counters' = [counters EXCEPT !.ticks = @ + 1]
    /\ UNCHANGED << heap, loggers, samplers, limiters, aggregators, timers, transports,
                    received, reports, promises, unhandled, frame, saved, scopes,
                    active, closing, lateSnapshot, last, nextSeq,
                    utilVars >>

\* The metrics interval of logger l fires: getSnapshot(), which resets the
\* aggregator, and console.log of the snapshot.
TimerFire(l) ==
    /\ timers[l]
    /\ aggregators' = [aggregators EXCEPT ![l] = reset(@, now)]
    /\ lateSnapshot' = (lateSnapshot \/ (closing.state # "none" /\ closing.logger = l))
    /\ UNCHANGED << heap, loggers, samplers, limiters, timers, transports, received,
                    reports, promises, unhandled, frame, saved, scopes, active,
                    closing, now, last, nextSeq, counters,
                    utilVars >>

\* ----------------------------------------- addTransport / removeTransport
InList(ts, s) == \E i \in 1..Len(ts) : ts[i] = s

RECURSIVE Without(_, _)
Without(ts, s) ==
    IF ts = << >> THEN << >>
    ELSE IF Head(ts) = s THEN Tail(ts)
         ELSE << Head(ts) >> \o Without(Tail(ts), s)

AddTransport(s) ==
    /\ Len(transports) < MaxTransports
    /\ transports' = Append(transports, s)
    /\ UNCHANGED << heap, loggers, samplers, limiters, aggregators, timers, received,
                    reports, promises, unhandled, frame, saved, scopes, active,
                    closing, lateSnapshot, now, last, nextSeq, counters,
                    utilVars >>

RemoveTransport(s) ==
    /\ transports' = Without(transports, s)
    /\ UNCHANGED << heap, loggers, samplers, limiters, aggregators, timers, received,
                    reports, promises, unhandled, frame, saved, scopes, active,
                    closing, lateSnapshot, now, last, nextSeq, counters,
                    utilVars >>

\* ------------------------------------------------------------- Logger.close
\* What calling a sink's close() does: return nothing, throw, or return a
\* promise that settles later.
CloseOutcomes == {"void", "throw", "promise"}

\* transports.map(t => t.close ? t.close() : Promise.resolve()): the calls
\* are made in list order; a close() that throws ends the map, and with it
\* the async function, which rejects.  done and pending hold positions of
\* the array: the promises of the map that are fulfilled, and those not yet
\* settled.
RECURSIVE closeAll(_, _, _)
closeAll(ts, c, co) ==
    IF ts = << >> THEN c
    ELSE LET s == Head(ts)
             i == Len(c.registered) - Len(ts) + 1
         IN  IF ~SinkHasClose[s]
             THEN closeAll(Tail(ts), [c EXCEPT !.done = @ \cup {i}], co)
             ELSE LET c1 == [c EXCEPT !.invoked[s] = @ + 1]
                  IN  CASE co[s] = "throw" -> [c1 EXCEPT !.state = "rejected"]
                        [] co[s] = "promise" ->
                             closeAll(Tail(ts), [c1 EXCEPT !.pending = @ \cup {i}], co)
                        [] OTHER ->
                             closeAll(Tail(ts), [c1 EXCEPT !.done = @ \cup {i}], co)

\* close() up to its await: clearInterval, then the close calls; the
\* promise it returns is settled when nothing is left to wait for.  The
\* model follows one close() call.
Close(l, co) ==
    /\ closing.state = "none"
    /\ timers' = [timers EXCEPT ![l] = FALSE]
    /\ LET c0 == [NoClose EXCEPT !.state = "pending", !.logger = l,
                                 !.registered = transports]
           c == closeAll(transports, c0, co)
       IN  closing' = IF c.state = "pending" /\ c.pending = {}
                      THEN [c EXCEPT !.state = "resolved"] ELSE c
    /\ UNCHANGED << heap, loggers, samplers, limiters, aggregators, transports,
                    received, reports, promises, unhandled, frame, saved, scopes,
                    active, lateSnapshot, now, last, nextSeq, counters,
                    utilVars >>

\* The promise the i-th close() returned settles.  Promise.all rejects with
\* the first rejection and is fulfilled when every promise is.
CloseSettle(i, fulfilled) ==
    /\ i \in closing.pending
    /\ LET c == [closing EXCEPT !.pending = @ \ {i},
                                !.done = IF fulfilled THEN @ \cup {i} ELSE @]
       IN  closing' =
             IF closing.state # "pending" THEN c
             ELSE IF ~fulfilled THEN [c EXCEPT !.state = "rejected"]
             ELSE IF c.pending = {} THEN [c EXCEPT !.state = "resolved"]
             ELSE c
    /\ UNCHANGED << heap, loggers, samplers, limiters, aggregators, timers, transports,
                    received, reports, promises, unhandled, frame, saved, scopes,
                    active, lateSnapshot, now, last, nextSeq, counters,
                    utilVars >>

\* ----------------------------------------------------------- specifications
\* Dispatch: one family of loggers over three sinks; calls at every level,
\* sinks that return, throw or reject.
GateBehaviours ==
    { [s \in Sinks |-> "ok"],
      [s \in Sinks |-> IF s = "s1" THEN "throw" ELSE "ok"],
      [s \in Sinks |-> IF s = "s2" THEN "reject" ELSE "resolve"],
      [s \in Sinks |-> IF s = "s1" THEN "reject" ELSE "throw"] }

\* ------------------------------------------------ the limiters on their own
\* Time passes between two calls.
Sleep(ms) ==
    /\ counters.ticks < MaxTicks
    /\ now' = now + ms
    /\ counters' = [counters EXCEPT !.ticks = @ + 1]
    /\ UNCHANGED << loggerVars, utilVars >>

Op == /\ counters.ops < MaxOps
      /\ counters' = [counters EXCEPT !.ops = @ + 1]
      /\ UNCHANGED << loggerVars, now >>

\* what a refill at time t credits before Math.min, and whether Math.min cut it
Credit(rl, t) == IF t - rl.lastRefill >= rl.windowMs THEN refillAmount(rl, t) ELSE 0

Clipped(rl, t) == rl.tokens + Credit(rl, t) > rl.maxBurst

ObserveRefill(o, rl, t) ==
    [o EXCEPT !.credited = @ + Credit(rl, t),
              !.clipped = @ \/ Clipped(rl, t),
              !.lastCall = t]

\* bucket.tryAcquire()
BucketTryAcquire ==
    /\ Op
    /\ \E r \in { tryAcquire(bucket, now) } :
          /\ bucket' = r.limiter
          /\ obs' = [ObserveRefill(obs, bucket, now) EXCEPT
                        !.acquires = @ + 1,
                        !.admitted = IF r.ok THEN @ + 1 ELSE @,
                        !.rejected = IF r.ok THEN @ ELSE @ + 1]
    /\ UNCHANGED << window, pair, metrics, ring, pool, safe, queue, file >>

\* bucket.getAvailableTokens()
BucketGetAvailableTokens ==
    /\ Op
    /\ bucket' = getAvailableTokens(bucket, now).limiter
    /\ obs' = ObserveRefill(obs, bucket, now)
    /\ UNCHANGED << window, pair, metrics, ring, pool, safe, queue, file >>

\* bucket.resetDroppedCount()
BucketResetDroppedCount ==
    /\ Op
    /\ bucket' = resetDroppedCount(bucket)
    /\ obs' = [obs EXCEPT !.rejected = 0]
    /\ UNCHANGED << window, pair, metrics, ring, pool, safe, queue, file >>

\* the admitted timestamps that lie within the last windowMs at time t
InWindow(stamps, w, t) == FilterNewer(stamps, t - w.windowMs)

\* window.tryAcquire()
WindowTryAcquire ==
    /\ Op
    /\ \E r \in { SlidingTryAcquire(window, now) } :
          /\ window' = r.limiter
          /\ obs' = [obs EXCEPT
                        !.wPrior = Len(InWindow(obs.wAdmits, window, now)),
                        !.wOk = r.ok,
                        !.wAdmits = IF r.ok THEN Append(@, now) ELSE @,
                        !.wRejected = IF r.ok THEN @ ELSE @ + 1]
    /\ UNCHANGED << bucket, pair, metrics, ring, pool, safe, queue, file >>

\* window.getCurrentUsage()
WindowGetCurrentUsage ==
    /\ Op
    /\ \E r \in { getCurrentUsage(window, now) } :
          /\ window' = r.limiter
          /\ obs' = [obs EXCEPT !.usage = r.usage]
    /\ UNCHANGED << bucket, pair, metrics, ring, pool, safe, queue, file >>

\* window.getUsagePercentage()
WindowGetUsagePercentage ==
    /\ Op
    /\ \E r \in { getUsagePercentage(window, now) } :
          /\ window' = r.limiter
          /\ obs' = [obs EXCEPT !.usage = r.percentage]
    /\ UNCHANGED << bucket, pair, metrics, ring, pool, safe, queue, file >>

InitGate ==
    \E lvl \in LogLevels :
        InitWith([DefaultOptions EXCEPT !.level = lvl], << "s1", "s2", "s3" >>)

NextGate ==
    \/ \E l \in LoggerIds, level \in LogLevels, beh \in GateBehaviours :
          Log(MainTask, l, level, Str("hello"), Undefined, beh)
    \/ \E p \in promises : SettleWrite(p)
    \/ \E l \in LoggerIds, level \in {"trace", "warn", "fatal", "verbose"} :
          SetLevel(l, level)

SpecGate == InitGate /\ [][NextGate]_vars

\* Scopes: one logger; the main task enters and leaves (nested) withContext
\* scopes and starts continuations inside them, which outlive the scope;
\* every task logs.
AllOk == [s \in Sinks |-> "ok"]

InitScope == InitWith([DefaultOptions EXCEPT !.context = Ref("svc", 0)], << "s1" >>)

NextScope ==
    \/ \E t \in Tasks : Log(t, 1, "info", Str("hi"), Undefined, AllOk)
    \/ \E ctx \in {Ref("ctxA", 0), Ref("ctxB", 0)} : WithContextEnter(MainTask, 1, ctx)
    \/ WithContextExit(MainTask)
    \/ \E t, u \in Tasks : Spawn(t, u)
    \/ \E u \in Tasks : Finish(u)

SpecScope == InitScope /\ [][NextScope]_vars

\* Family: a logger and the children derived from it and from each other,
\* with log calls through any of them.
InitFamily == InitWith([DefaultOptions EXCEPT !.context = Ref("svc", 0)], << "s1" >>)

NextFamily ==
    \/ \E l \in LoggerIds : Log(MainTask, l, "info", Str("hi"), Undefined, AllOk)
    \/ \E l \in LoggerIds, extra \in {Ref("db", 0), Ref("ctxB", 0)} : Child(l, extra)

SpecFamily == InitFamily /\ [][NextFamily]_vars

\* Ambient context in a family: as above, and the main task enters and
\* leaves withContext scopes opened on any logger of the family.
NextAmbient ==
    \/ \E l \in LoggerIds : Log(MainTask, l, "info", Str("hi"), Undefined, AllOk)
    \/ \E l \in LoggerIds : WithContextEnter(MainTask, l, Ref("ctxA", 0))
    \/ WithContextExit(MainTask)
    \/ \E l \in LoggerIds : Child(l, Ref("db", 0))

SpecAmbient == InitFamily /\ [][NextAmbient]_vars

\* Payloads: one logger, with or without a redact list, bound to a plain or
\* to a self-referencing context; calls with plain, nested, self-referencing
\* and Error arguments, inside and outside withContext scopes.
InitCyclic ==
    \E ctx \in {Ref("svc", 0), Ref("loop", 0)}, red \in {{}, {"password", "token"}} :
        InitWith([DefaultOptions EXCEPT !.context = ctx, !.redact = red], << "s1" >>)

NextCyclic ==
    \/ \E obj \in {Str("hi"), Ref("plain", 0), Ref("outer", 0), Ref("loop", 0),
                   Ref("err", 0), Ref("cycErr", 0)},
          msg \in {Undefined, Str("m")} :
          Log(MainTask, 1, "info", obj, msg, AllOk)
    \/ \E ctx \in {Ref("ctxA", 0), Ref("loop", 0)} : WithContextEnter(MainTask, 1, ctx)
    \/ WithContextExit(MainTask)

SpecCyclic == InitCyclic /\ [][NextCyclic]_vars

\* Shutdown: one logger with metrics reporting on, over three sinks; the
\* transport array changes, the clock and the metrics timer run, and close()
\* is called with sinks whose close returns, throws, or returns a promise
\* that is fulfilled or rejected later.
CloseBehaviours ==
    { [s \in Sinks |-> "void"],
      [s \in Sinks |-> IF s = "s1" THEN "throw" ELSE "void"],
      [s \in Sinks |-> IF s = "s2" THEN "promise" ELSE "void"],
      [s \in Sinks |-> "promise"],
      [s \in Sinks |-> IF s = "s2" THEN "throw" ELSE "promise"] }

InitClose ==
    InitWith([DefaultOptions EXCEPT !.metrics = [enabled |-> TRUE, interval |-> 60000]],
             << "s1", "s2", "s3" >>)

NextClose ==
    \/ Tick
    \/ TimerFire(1)
    \/ \E s \in {"s1", "s3"} : AddTransport(s)
    \/ \E s \in {"s2", "s3"} : RemoveTransport(s)
    \/ \E co \in CloseBehaviours : Close(1, co)
    \/ \E i \in closing.pending, fulfilled \in BOOLEAN : CloseSettle(i, fulfilled)

SpecClose == InitClose /\ [][NextClose]_vars

\* ------------------------------------------------------------------ claims
Reported(s, seq) == \E i \in 1..Len(reports) : reports[i] = [sink |-> s, seq |-> seq]

PlainPipeline(l) ==
    LET lg == loggers[l]
    IN  ~lg.sampling.enabled /\ ~lg.rateLimit.enabled /\ lg.filter = "all"

\* C1: a log call at a level below the logger's minimum level (as set at
\* construction or by setLevel) stops at the level gate and causes no write
\* to any sink; a call at or above the minimum passes the level gate, and
\* with no other gate configured is written exactly once to each registered
\* sink that has no level of its own.
C1_LevelGate ==
    last.outcome # "none" =>
        /\ LOG_LEVELS[last.level] < LOG_LEVELS[last.min] =>
              /\ last.outcome = "level"
              /\ \A s \in Sinks : last.writes[s] = 0
        /\ LOG_LEVELS[last.level] >= LOG_LEVELS[last.min] =>
              /\ last.outcome # "level"
              /\ PlainPipeline(last.logger) =>
                    /\ last.outcome = "written"
                    /\ \A s \in Sinks :
                          InList(transports, s) /\ SinkLevel[s] = "" => last.writes[s] = 1

\* Witness of C1: after setLevel('warn') and an earlier accepted call, a call
\* at info was dropped at the gate.
C1_Witness ==
    /\ last.outcome = "level" /\ last.min = "warn" /\ last.level = "info"
    /\ nextSeq = 1

\* C2: when a dispatched entry meets a sink whose write throws or returns a
\* rejecting promise, the log call does not throw, the failure is reported
\* on console.error (a rejection once its handler has run; until then the
\* handler is attached), no rejection goes unhandled, and every sink whose
\* threshold admits the entry gets exactly one write of it.
C2_WriteErrorsContained ==
    /\ last.outcome # "threw"
    /\ ~unhandled
    /\ \A p \in promises : p.caught
    /\ last.outcome = "written" =>
          \A s \in Sinks :
             /\ last.writes[s] = IF s \in last.admitted THEN 1 ELSE 0
             /\ s \in last.admitted /\ last.beh[s] = "throw" => Reported(s, last.seq)
             /\ s \in last.admitted /\ last.beh[s] = "reject" =>
                   \/ Reported(s, last.seq)
                   \/ [sink |-> s, seq |-> last.seq, caught |-> TRUE] \in promises

\* Witness of C2: the first sink threw, a later sink rejected and its
\* rejection has been reported, and both got their write.
C2_Witness ==
    /\ last.outcome = "written"
    /\ last.beh["s1"] = "reject" /\ last.beh["s3"] = "throw"
    /\ last.admitted = {"s1", "s2", "s3"}
    /\ last.writes["s3"] = 1
    /\ Reported("s1", last.seq) /\ Reported("s3", last.seq)

\* C10: each sink's write is called with the entries in the order of the
\* log calls that passed all gates: along the sequence a sink received, the
\* call numbers strictly increase.
C10_FifoPerSink ==
    \A s \in Sinks :
        \A i, j \in 1..Len(received[s]) :
            i < j => received[s][i].seq < received[s][j].seq

\* Witness of C10: a sink has received two entries, the first from a call
\* during which another sink threw.
C10_Witness ==
    /\ Len(received["s3"]) = 2
    /\ Reported("s1", 1)

\* The entry the most recent log call built.
Entry == heap[EntryRef].props

\* The own store of the logger of the most recent log call.
LastStore == loggers[last.logger].store

\* The contexts the callers pass to withContext.
ScopeContexts == {Ref("ctxA", 0), Ref("ctxB", 0)}

CtxKeys(ctx) == IF ctx.k = "ref" THEN OwnKeys(heap[ctx]) ELSE {}

\* C3: with withContext scopes A and B open at the same time in different
\* asynchronous tasks, in any interleaving, an entry logged inside scope A, or
\* in a continuation started inside it, carries every field of A's context
\* with A's value and no field of B's context (a key both have carries A's
\* value); an entry logged inside no scope carries no field of either.
C3_ScopesIsolated ==
    last.outcome = "written" =>
        LET A == InnermostScope(last.scopes, LastStore)
        IN  /\ \A k \in CtxKeys(A) : Get(Entry, k) = heap[A].props[k]
            /\ \A B \in ScopeContexts \ {A} :
                  \A k \in CtxKeys(B) \ CtxKeys(A) : k \notin DOMAIN Entry

\* Witness of C3: a continuation started inside scope A logged, with A's
\* fields, while the main task was inside scope B.
C3_Witness ==
    /\ last.outcome = "written"
    /\ last.task # MainTask
    /\ InnermostScope(last.scopes, LastStore) = Ref("ctxA", 0)
    /\ InnermostScope(scopes[MainTask], LastStore) = Ref("ctxB", 0)
    /\ Get(Entry, "requestId") = Str("A")
    /\ "tenant" \notin DOMAIN Entry

\* C4: in the task that makes nested withContext calls, the ambient keys of
\* an entry are exactly the keys of the innermost call still running, with
\* its values: the inner context replaces the outer one (no key of the outer
\* one is merged in), the outer one is back once the inner call has
\* returned, and there is none once the outermost call has returned.
C4_NestedReplace ==
    last.outcome = "written" /\ last.task = MainTask =>
        LET ambient == { k \in DOMAIN Entry :
                           \E ctx \in ScopeContexts : k \in CtxKeys(ctx) }
        IN  IF last.scopes = << >>
            THEN ambient = {}
            ELSE LET inner == Head(last.scopes).ctx
                 IN  /\ ambient = CtxKeys(inner)
                     /\ \A k \in ambient : Entry[k] = heap[inner].props[k]

\* Witness of C4: an entry logged inside withContext(B) nested in
\* withContext(A) has B's fields and not A's user field, and the inner call
\* has returned since.
C4_Witness ==
    /\ last.outcome = "written"
    /\ last.task = MainTask
    /\ Len(last.scopes) = 2
    /\ Head(last.scopes).ctx = Ref("ctxB", 0)
    /\ last.scopes[2].ctx = Ref("ctxA", 0)
    /\ Get(Entry, "tenant") = Str("b")
    /\ "user" \notin DOMAIN Entry
    /\ Len(scopes[MainTask]) = 1
    /\ frame[MainTask][LastStore] = Ref("ctxA", 0)

\* C5: a child() call, on the root logger or on a child, leaves the bound
\* context of every logger that existed before it as it was: the same
\* object, with the same keys and values.
C5_ChildLeavesOthers ==
    [][ Len(loggers') > Len(loggers) =>
          \A l \in 1..Len(loggers) :
              /\ loggers'[l].context = loggers[l].context
              /\ heap'[loggers'[l].context] = heap[loggers[l].context] ]_vars

\* Witness of C5: a child of a child exists, and the root logger and the
\* first child still attach the bound fields they had.
C5_Witness ==
    /\ Len(loggers) = 3
    /\ loggers[2].parent = 1
    /\ loggers[3].parent = 2
    /\ OwnProps(heap[loggers[1].context]) = ("service" :> Str("api"))
    /\ OwnProps(heap[loggers[2].context]) =
          ("service" :> Str("db")) @@ ("component" :> Str("pool"))
    /\ last.outcome = "written"
    /\ last.logger = 1
    /\ Get(Entry, "service") = Str("api")

\* C6: an entry logged through any logger of a family while a withContext
\* call made on any logger of the family is running carries the fields of
\* that call's context (parent and children share one ambient store).
C6_ChildSharesStore ==
    last.outcome = "written" /\ last.scopes # << >> =>
        LET ctx == Head(last.scopes).ctx
        IN  \A k \in CtxKeys(ctx) : Get(Entry, k) = heap[ctx].props[k]

\* C7: no log call throws, whatever the redact list, the bound context and
\* the arguments are (the sinks of this specification never fail).
C7_LogNeverThrows == last.outcome # "threw"

\* C8: once close() has been called, close has been invoked on every
\* registered sink that defines it, whatever the other sinks' close did, and
\* the promise close() returned is not rejected.
C8_CloseAggregates ==
    closing.state # "none" =>
        /\ \A i \in 1..Len(closing.registered) :
              SinkHasClose[closing.registered[i]] =>
                  closing.invoked[closing.registered[i]] >= 1
        /\ closing.state # "rejected"

\* C9: once close() has been called the metrics timer is stopped and no
\* timer-driven snapshot follows; close has been invoked exactly once on
\* every registered sink that defines it; and the returned promise is
\* resolved only when every sink's close has completed.
C9_CloseOrder ==
    closing.state # "none" =>
        /\ ~timers[closing.logger]
        /\ ~lateSnapshot
        /\ \A i \in 1..Len(closing.registered) :
              SinkHasClose[closing.registered[i]] =>
                  closing.invoked[closing.registered[i]] = 1
        /\ closing.state = "resolved" =>
              closing.done = 1..Len(closing.registered)


\* ------------------------------------------------- the sampler on its own
\* new Sampler(options) with the options of the first one, at a later time
SamplerConstruct ==
    /\ Op
    /\ Len(pair) = 1
    /\ pair' = Append(pair, SamplerOf(obs.samplerOptions, now))
    /\ obs' = [obs EXCEPT !.runs = Append(@, NoRun)]
    /\ UNCHANGED << bucket, window, metrics, ring, pool, safe, queue, file >>

\* pair[i].shouldSample(), at most limit times
SamplerShouldSample(i, limit) ==
    /\ i \in 1..Len(pair)
    /\ obs.runs[i].asked < limit
    /\ \E r \in { shouldSample(pair[i]) } :
          /\ pair' = [pair EXCEPT ![i] = r.sampler]
          /\ obs' = [obs EXCEPT
                        !.runs[i].current = Append(@, r.keep),
                        !.runs[i].first = IF obs.runs[i].resets = 0 THEN Append(@, r.keep) ELSE @,
                        !.runs[i].asked = @ + 1,
                        !.runs[i].sampled = IF r.keep THEN @ + 1 ELSE @]
    /\ UNCHANGED << loggerVars, now, counters, bucket, window, metrics, ring, pool, safe, queue, file >>

\* pair[i].reset()
SamplerDoReset(i) ==
    /\ Op
    /\ i \in 1..Len(pair)
    /\ pair' = [pair EXCEPT ![i] = SamplerReset(pair[i])]
    /\ obs' = [obs EXCEPT !.runs[i].current = << >>, !.runs[i].resets = @ + 1]
    /\ UNCHANGED << bucket, window, metrics, ring, pool, safe, queue, file >>

\* ------------------------------------------- the aggregator on its own
\* the entries the caller records: { level, time } with an optional duration
MetricEntry(level, duration, t) ==
    IF duration = 0
    THEN ("level" :> Str(level)) @@ ("time" :> Num(t))
    ELSE ("level" :> Str(level)) @@ ("time" :> Num(t)) @@ ("duration" :> Num(duration))

\* metrics.recordLog(entry)
MetricsRecordLog(level, duration) ==
    /\ Op
    /\ metrics' = recordLog(metrics, heap, MetricEntry(level, duration, now), now)
    /\ obs' = [obs EXCEPT !.recorded = @ + 1, !.sinceTotal = @ + 1, !.justSnapped = FALSE]
    /\ UNCHANGED << bucket, window, pair, ring, pool, safe, queue, file >>

\* metrics.recordDropped()
MetricsRecordDropped ==
    /\ Op
    /\ metrics' = recordDropped(metrics)
    /\ obs' = [obs EXCEPT !.drops = @ + 1, !.sinceDropped = @ + 1, !.justSnapped = FALSE]
    /\ UNCHANGED << bucket, window, pair, ring, pool, safe, queue, file >>

\* what the caller holds after a snapshot was handed out
ObserveSnapshot(o, snapshot) ==
    [o EXCEPT !.snapshots = @ + 1,
              !.snapTotal = @ + snapshot.counts.total,
              !.snapDropped = @ + snapshot.counts.dropped,
              !.expectTotal = o.sinceTotal,
              !.expectDropped = o.sinceDropped,
              !.sinceTotal = 0,
              !.sinceDropped = 0,
              !.justSnapped = TRUE,
              !.earlierMax = IF o.snapshots > 0 /\ o.lastSnap.throughput.max > @
                             THEN o.lastSnap.throughput.max ELSE @,
              !.lastSnap = snapshot]

\* metrics.getSnapshot()
MetricsGetSnapshot ==
    /\ Op
    /\ \E r \in { getSnapshot(metrics, now) } :
          /\ metrics' = r.aggregator
          /\ obs' = ObserveSnapshot(obs, r.snapshot)
    /\ UNCHANGED << bucket, window, pair, ring, pool, safe, queue, file >>

\* metrics.toPrometheus()
MetricsToPrometheus ==
    /\ Op
    /\ \E r \in { toPrometheus(metrics, now) } :
          /\ metrics' = r.aggregator
          /\ obs' = [ObserveSnapshot(obs, r.snapshot) EXCEPT
                        !.exported = @ + 1,
                        !.lastSnap.counts.total = r.text.logs_total,
                        !.lastSnap.counts.dropped = r.text.dropped_total]
    /\ UNCHANGED << bucket, window, pair, ring, pool, safe, queue, file >>

\* ------------------------------------------------ the ring buffer on its own
\* Buffer.alloc(n, byte)
Bytes(n, byte) == [k \in 1..n |-> byte]

\* The bytes a lossy first-in first-out queue of the given capacity holds
\* after more are appended: the most recent ones.
RECURSIVE LastBytes(_, _)
LastBytes(list, n) == IF Len(list) <= n THEN list ELSE LastBytes(Tail(list), n)

FirstBytes(list, n) == [k \in 1..n |-> list[k]]

RECURSIVE DropBytes(_, _)
DropBytes(list, n) == IF n = 0 THEN list ELSE DropBytes(Tail(list), n - 1)

\* What the caller knows after a call: which call it was, what it returned
\* and what a queue of the written bytes would have returned, the bytes
\* written and not yet read, and whether a write exceeded the free space.
Returned(o, op, r, expected, pending) ==
    [o EXCEPT !.op = op,
              !.ret = [ok |-> r.ok, data |-> r.data],
              !.expected = expected,
              !.pending = pending,
              !.prevOverwrote = o.op = "write" /\ o.overwrote,
              !.overwrote = FALSE]

\* ring.write(data)
RingDoWrite(data) ==
    /\ Op
    /\ \E r \in { RingWrite(ring, data) } :
          /\ ring' = r.ring
          /\ obs' = [obs EXCEPT
                        !.op = "write",
                        !.ret = [ok |-> r.ok, data |-> << >>],
                        !.expected = [ok |-> Len(data) <= ring.size, data |-> << >>],
                        !.prevOverwrote = FALSE,
                        !.overwrote = Len(data) <= ring.size
                                        /\ Len(data) > ring.size - Len(obs.pending),
                        !.overflowed = @ \/ Len(data) > ring.size - Len(obs.pending),
                        !.pending = IF Len(data) <= ring.size
                                    THEN LastBytes(@ \o data, ring.size) ELSE @]
    /\ UNCHANGED << bucket, window, pair, metrics, pool, safe, queue, file >>

\* ring.read(n)
RingDoRead(n) ==
    /\ Op
    /\ \E r \in { RingRead(ring, n) } :
          /\ ring' = r.ring
          /\ obs' = IF n <= Len(obs.pending)
                    THEN Returned(obs, "read", r,
                                  [ok |-> TRUE, data |-> FirstBytes(obs.pending, n)],
                                  DropBytes(obs.pending, n))
                    ELSE Returned(obs, "read", r, [ok |-> FALSE, data |-> << >>], obs.pending)
    /\ UNCHANGED << bucket, window, pair, metrics, pool, safe, queue, file >>

\* ring.readAll()
RingDoReadAll ==
    /\ Op
    /\ \E r \in { RingReadAll(ring) } :
          /\ ring' = r.ring
          /\ obs' = Returned(obs, "readAll", r, [ok |-> TRUE, data |-> obs.pending], << >>)
    /\ UNCHANGED << bucket, window, pair, metrics, pool, safe, queue, file >>

\* ring.peek(n)
RingDoPeek(n) ==
    /\ Op
    /\ \E r \in { RingPeek(ring, n) } :
          /\ ring' = r.ring
          /\ obs' = IF n <= Len(obs.pending)
                    THEN Returned(obs, "peek", r,
                                  [ok |-> TRUE, data |-> FirstBytes(obs.pending, n)],
                                  obs.pending)
                    ELSE Returned(obs, "peek", r, [ok |-> FALSE, data |-> << >>], obs.pending)
    /\ UNCHANGED << bucket, window, pair, metrics, pool, safe, queue, file >>

\* ring.flush()
RingDoFlush ==
    /\ Op
    /\ \E r \in { RingFlush(ring) } :
          /\ ring' = r.ring
          /\ obs' = Returned(obs, "flush", r, [ok |-> TRUE, data |-> obs.pending], << >>)
    /\ UNCHANGED << bucket, window, pair, metrics, pool, safe, queue, file >>

\* ring.clear()
RingDoClear ==
    /\ Op
    /\ ring' = RingClear(ring)
    /\ obs' = [obs EXCEPT !.op = "clear", !.pending = << >>, !.overwrote = FALSE,
                          !.prevOverwrote = FALSE, !.ret = [ok |-> TRUE, data |-> << >>],
                          !.expected = [ok |-> TRUE, data |-> << >>]]
    /\ UNCHANGED << bucket, window, pair, metrics, pool, safe, queue, file >>

\* ------------------------------------------------ the object pool on its own
\* The callers: held are the objects acquired and not yet released, known
\* those a caller has a reference to, returned those released at least once.
PoolOp ==
    /\ counters.ops < MaxPoolOps
    /\ counters' = [counters EXCEPT !.ops = @ + 1]
    /\ UNCHANGED << loggerVars, now, bucket, window, pair, metrics, ring, safe, queue, file >>

\* const obj = pool.acquire()
PoolDoAcquire ==
    /\ PoolOp
    /\ Len(pool.pool) > 0 \/ pool.made < MaxObjects
    /\ \E r \in { PoolAcquire(pool) } :
          /\ pool' = r.pool
          /\ obs' = [obs EXCEPT
                        !.held = @ \cup {r.obj},
                        !.known = @ \cup {r.obj},
                        !.handed = [obj |-> r.obj, props |-> pool.objects[r.obj],
                                    released |-> r.obj \in obs.returned],
                        !.op = "acquire", !.arg = r.obj, !.warned = r.warned,
                        !.shared = @ \/ r.obj \in obs.held]

\* obj.msg = value, by a caller that holds obj
PoolSetField(obj, key, value) ==
    /\ PoolOp
    /\ obj \in obs.held
    /\ pool' = [pool EXCEPT !.objects[obj] = (key :> value) @@ @]
    /\ obs' = [obs EXCEPT !.op = "set", !.arg = obj]

\* pool.release(obj), by a caller that has a reference to obj
PoolDoRelease(obj) ==
    /\ PoolOp
    /\ obj \in obs.known
    /\ pool' = release(pool, obj)
    /\ obs' = [obs EXCEPT !.held = @ \ {obj},
                          !.returned = @ \cup {obj},
                          !.misused = @ \/ obj \notin obs.held,
                          !.op = "release", !.arg = obj]

\* pool.clear()
PoolDoClear ==
    /\ PoolOp
    /\ pool' = PoolClear(pool)
    /\ obs' = [obs EXCEPT !.op = "clear", !.arg = 0]

\* pool.resize(newSize)
PoolDoResize(newSize) ==
    /\ PoolOp
    /\ newSize <= Len(pool.pool) \/ pool.made + (newSize - Len(pool.pool)) <= MaxObjects
    /\ pool' = PoolResize(pool, newSize)
    /\ obs' = [obs EXCEPT !.op = "resize", !.arg = newSize]

\* ---------------------------------------------- the stringifier on its own
\* stringifier.stringify(obj) for the first object of the graph
SafeDoStringify ==
    /\ Len(obs.texts) < MaxCalls
    /\ \E r \in { stringify(safe, 1) } :
          /\ safe' = r.stringifier
          /\ obs' = [obs EXCEPT !.texts = Append(@, r.text)]
    /\ UNCHANGED << loggerVars, now, counters, bucket, window, pair, metrics, ring, pool, queue, file >>

\* ------------------------------------------------------------ the limiters
\* A token bucket and a sliding-window limiter, each built at time 0 and
\* called in any order while time passes.  Rates and capacities include
\* fractional ones (half a token per window).
BucketOptions ==
    { [enabled |-> TRUE, maxPerSecond |-> m, maxBurst |-> b] :
        m \in {Unit \div 2, Unit}, b \in {0, 3 * Unit} }

WindowOptions == { [maxRequests |-> n, windowMs |-> WindowMs] : n \in {1, 2} }

InitLimiterSpec ==
    /\ InitLogger(DefaultOptions, << >>)
    /\ \E bo \in BucketOptions, wo \in WindowOptions : InitLimiters(bo, wo)
    /\ pair = << >>
    /\ metrics = NewMetrics(0)
    /\ pool = NewObjectPool(1, 1)
    /\ safe = NewSafeStringify(NoGraph)
    /\ queue = NewAsyncWriteQueue(NoQueueOptions)
    /\ file = NewFileTransport(NoFileOptions)
    /\ ring = NewRingBuffer(1, 0)
    /\ obs = NoObs

NextLimiters ==
    \/ BucketTryAcquire
    \/ BucketGetAvailableTokens
    \/ BucketResetDroppedCount
    \/ WindowTryAcquire
    \/ WindowGetCurrentUsage
    \/ WindowGetUsagePercentage
    \/ \E ms \in {TickMs, 3 * TickMs} : Sleep(ms)

SpecLimiters == InitLimiterSpec /\ [][NextLimiters]_vars

\* C11: a token bucket built with a whole burst capacity B has admitted, as
\* long as no refill has become due (less than windowMs has passed since it
\* was built), exactly the first B of the tryAcquire() calls made so far and
\* rejected all the later ones.
C11_BurstAdmitted ==
    (bucket.maxBurst % Unit = 0 /\ now < bucket.windowMs)
        => obs.admitted = Min(obs.acquires, bucket.maxBurst \div Unit)

C11_Witness ==
    /\ bucket.maxBurst % Unit = 0
    /\ bucket.maxBurst >= Unit
    /\ now < bucket.windowMs
    /\ obs.acquires > bucket.maxBurst \div Unit
    /\ obs.admitted = bucket.maxBurst \div Unit

\* C12: the token count of the bucket is never below zero and never above
\* maxBurst.
C12_TokensBounded == 0 <= bucket.tokens /\ bucket.tokens <= bucket.maxBurst

\* C13: as long as no refill was cut at maxBurst, the tokens credited by all
\* the refills so far are what a single refill at the time of the last call
\* would have credited: the whole tokens the time since construction is worth.
C13_NoTimeLost ==
    ~obs.clipped =>
        obs.credited = ((obs.lastCall * bucket.maxPerSecond) \div (bucket.windowMs * Unit)) * Unit

\* C14: the admitted requests of the sliding-window limiter whose timestamps
\* lie within the last windowMs are at most maxRequests and are exactly the
\* timestamps the limiter holds for that window; a call was admitted iff
\* fewer than maxRequests admitted timestamps were in the window when it was
\* made, and every timestamp held is one of an admitted call.
C14_WindowBounded ==
    /\ Len(InWindow(obs.wAdmits, window, now)) <= window.maxRequests
    /\ InWindow(window.requests, window, now) = InWindow(obs.wAdmits, window, now)
    /\ \A i \in 1..Len(window.requests) :
           \E j \in 1..Len(obs.wAdmits) : obs.wAdmits[j] = window.requests[i]
    /\ Len(window.requests) <= Len(obs.wAdmits)
    /\ obs.wOk <=> (obs.wPrior < window.maxRequests)

C14_Witness ==
    /\ ~obs.wOk
    /\ Len(obs.wAdmits) > window.maxRequests
    /\ Len(InWindow(obs.wAdmits, window, now)) = window.maxRequests

\* C15: the dropped count of each limiter is the number of its tryAcquire()
\* calls that returned false since it was built (for the token bucket, since
\* its last resetDroppedCount()); no other call changes it.
C15_DroppedCounts ==
    /\ bucket.dropped = obs.rejected
    /\ window.dropped = obs.wRejected

C15_Witness ==
    /\ bucket.dropped > 0
    /\ window.dropped > 0
    /\ obs.admitted > 0
    /\ Len(obs.wAdmits) > 0

\* ------------------------------------------------------------- the sampler
Abs(n) == IF n < 0 THEN 0 - n ELSE n

Rates == { [num |-> 1, den |-> 2], [num |-> 1, den |-> 3], [num |-> 3, den |-> 4] }

SamplerOptions ==
    { [rate |-> r, seed |-> sd, hasSeed |-> TRUE] : r \in Rates, sd \in {0, 1, 7} }
    \cup { [rate |-> r, seed |-> 0, hasSeed |-> FALSE] : r \in Rates }

InitSamplerSpec ==
    /\ InitLogger(DefaultOptions, << >>)
    /\ InitLimiters(DefaultOptions.rateLimit, [maxRequests |-> 1, windowMs |-> WindowMs])
    /\ \E o \in SamplerOptions : InitSamplers(o)
    /\ metrics = NewMetrics(0)
    /\ pool = NewObjectPool(1, 1)
    /\ safe = NewSafeStringify(NoGraph)
    /\ queue = NewAsyncWriteQueue(NoQueueOptions)
    /\ file = NewFileTransport(NoFileOptions)
    /\ ring = NewRingBuffer(1, 0)

\* One sampler asked again and again.
NextSampling == SamplerShouldSample(1, MaxSamples)

SpecSampling == InitSamplerSpec /\ [][NextSampling]_vars

\* Two samplers built from the same options at different times, asked and
\* reset in any order.
NextSeeded ==
    \/ SamplerConstruct
    \/ \E i \in 1..2 : SamplerShouldSample(i, MaxOps)
    \/ \E i \in 1..2 : SamplerDoReset(i)
    \/ Sleep(TickMs)

SpecSeeded == InitSamplerSpec /\ [][NextSeeded]_vars

\* the number of calls after which the proportion is judged
SettleCalls == MaxSamples - 2

\* C16: for a rate strictly between 0 and 1, once a sampler has been asked
\* many times the proportion of calls it accepted is the rate, within the
\* tolerance of a fifth that the example for 0.5 allows (300 to 700 of 1000).
C16_ProportionConverges ==
    \A i \in 1..Len(pair) :
        (0 < pair[i].num /\ pair[i].num < pair[i].den /\ obs.runs[i].asked >= SettleCalls)
            => 5 * Abs(obs.runs[i].sampled * pair[i].den - pair[i].num * obs.runs[i].asked)
                   <= pair[i].den * obs.runs[i].asked

Agree(a, b) == \A k \in 1..Min(Len(a), Len(b)) : a[k] = b[k]

\* C17: two samplers built with the same rate and the same supplied seed gave
\* the same answer to their k-th call for every k, and a sampler that was
\* reset repeats the answers of its first run and keeps its rate.
C17_SeedDeterministic ==
    /\ \A i \in 1..Len(pair) :
          /\ Agree(obs.runs[i].first, obs.runs[i].current)
          /\ pair[i].num = obs.samplerOptions.rate.num
          /\ pair[i].den = obs.samplerOptions.rate.den
    /\ (obs.samplerOptions.hasSeed /\ Len(pair) = 2)
          => Agree(obs.runs[1].first, obs.runs[2].first)

\* ---------------------------------------------------------- the aggregator
InitMetricsSpec ==
    /\ InitLogger(DefaultOptions, << >>)
    /\ InitLimiters(DefaultOptions.rateLimit, [maxRequests |-> 1, windowMs |-> WindowMs])
    /\ pair = << >>
    /\ metrics = NewMetrics(0)
    /\ pool = NewObjectPool(1, 1)
    /\ safe = NewSafeStringify(NoGraph)
    /\ queue = NewAsyncWriteQueue(NoQueueOptions)
    /\ file = NewFileTransport(NoFileOptions)
    /\ ring = NewRingBuffer(1, 0)
    /\ obs = NoObs

NextMetrics ==
    \/ \E level \in {"info", "error"}, duration \in {0, 5} : MetricsRecordLog(level, duration)
    \/ MetricsRecordDropped
    \/ MetricsGetSnapshot
    \/ MetricsToPrometheus
    \/ Sleep(3 * TickMs)

SpecMetrics == InitMetricsSpec /\ [][NextMetrics]_vars

\* C18: a snapshot (the one toPrometheus takes included) reports the entries
\* and drops recorded since the previous one, leaves every count at zero, and
\* each recorded entry and drop is counted in exactly one snapshot: those in
\* the snapshots so far plus those still pending are all that were recorded.
C18_SnapshotExact ==
    /\ obs.snapshots > 0 =>
          /\ obs.lastSnap.counts.total = obs.expectTotal
          /\ obs.lastSnap.counts.dropped = obs.expectDropped
    /\ obs.justSnapped =>
          /\ metrics.totalCount = 0
          /\ metrics.droppedCount = 0
          /\ metrics.errorCount = 0
          /\ metrics.counts = ZeroCounts
          /\ metrics.durations = << >>
    /\ obs.snapTotal + metrics.totalCount = obs.recorded
    /\ obs.snapDropped + metrics.droppedCount = obs.drops

C18_Witness ==
    /\ obs.snapshots >= 2
    /\ obs.exported >= 1
    /\ obs.justSnapped
    /\ obs.snapTotal >= 1
    /\ obs.snapDropped >= 1
    /\ obs.lastSnap.counts.total = 0
    /\ obs.lastSnap.counts.dropped = 0

\* C19: the maximum throughput a snapshot reports is at least the maximum
\* throughput of every earlier snapshot of the aggregator.
C19_MaxThroughputKept ==
    obs.snapshots > 1 => obs.lastSnap.throughput.max >= obs.earlierMax

\* --------------------------------------------------------- the ring buffer
RingSizes == {3, 10}

RingBytes == {65, 89}

\* short writes, writes of a whole buffer, and writes that are too long
WriteLengths == {1, 2} \cup RingSizes \cup { size + 1 : size \in RingSizes }

InitRingSpec ==
    /\ InitLogger(DefaultOptions, << >>)
    /\ InitLimiters(DefaultOptions.rateLimit, [maxRequests |-> 1, windowMs |-> WindowMs])
    /\ pair = << >>
    /\ metrics = NewMetrics(0)
    /\ pool = NewObjectPool(1, 1)
    /\ safe = NewSafeStringify(NoGraph)
    /\ queue = NewAsyncWriteQueue(NoQueueOptions)
    /\ file = NewFileTransport(NoFileOptions)
    /\ \E size \in RingSizes, junk \in {0} \cup RingBytes : ring = NewRingBuffer(size, junk)
    /\ obs = NoObs

NextRing ==
    \/ \E n \in WriteLengths, byte \in RingBytes : RingDoWrite(Bytes(n, byte))
    \/ \E n \in {1, 2} : RingDoRead(n)
    \/ RingDoReadAll
    \/ \E n \in {1, 2} : RingDoPeek(n)
    \/ RingDoFlush
    \/ RingDoClear

SpecRing == InitRingSpec /\ [][NextRing]_vars

\* C20: used space plus free space of the ring buffer is its size, in every
\* state that writes, reads, readAll, peeks, flushes and clears can reach.
C20_UsedPlusFree == getUsedSpace(ring) + getFreeSpace(ring) = getSize(ring)

\* C21: as long as no write exceeded the free space, every read, readAll,
\* peek and flush returned what a first-in first-out queue of the written
\* bytes returns: the unread bytes in the order written (all of them for
\* readAll), and null only when more was asked than is unread.
C21_FifoWithinCapacity == ~obs.overflowed => obs.ret = obs.expected

\* C22: a write of at most size bytes that exceeds the free space returns
\* true and leaves the buffer full with both cursors equal, and a readAll()
\* right after it returns the most recent size bytes in the order written.
C22_OverwriteKeepsRecent ==
    /\ (obs.op = "write" /\ obs.overwrote) =>
          /\ obs.ret.ok
          /\ getUsedSpace(ring) = getSize(ring)
          /\ getFreeSpace(ring) = 0
          /\ ring.readPos = ring.writePos
    /\ (obs.op = "readAll" /\ obs.prevOverwrote) => obs.ret = obs.expected

\* ---------------------------------------------------------- the object pool
InitPoolSpec ==
    /\ InitLogger(DefaultOptions, << >>)
    /\ InitLimiters(DefaultOptions.rateLimit, [maxRequests |-> 1, windowMs |-> WindowMs])
    /\ pair = << >>
    /\ metrics = NewMetrics(0)
    /\ ring = NewRingBuffer(1, 0)
    /\ \E initialSize \in {1, 2} : pool = NewObjectPool(initialSize, 2)
    /\ safe = NewSafeStringify(NoGraph)
    /\ queue = NewAsyncWriteQueue(NoQueueOptions)
    /\ file = NewFileTransport(NoFileOptions)
    /\ obs = NoObs

NextPool ==
    \/ PoolDoAcquire
    \/ \E obj \in 1..MaxObjects : PoolSetField(obj, "msg", Str("Test"))
    \/ \E obj \in 1..MaxObjects : PoolDoRelease(obj)
    \/ PoolDoClear
    \/ \E newSize \in {0, 1, 2} : PoolDoResize(newSize)

SpecPool == InitPoolSpec /\ [][NextPool]_vars

\* C23: an object that acquire() handed out and that had been released to
\* the pool before had no property left at the moment it was handed out.
C23_AcquiredIsReset ==
    obs.handed.released => obs.handed.props = EmptyProps

\* ---------------------------------------------------------- the stringifier
Graphs == [GraphNodes -> [kind : GraphKinds, next : {0} \cup GraphNodes]]

InitSafeSpec ==
    /\ InitLogger(DefaultOptions, << >>)
    /\ InitLimiters(DefaultOptions.rateLimit, [maxRequests |-> 1, windowMs |-> WindowMs])
    /\ pair = << >>
    /\ metrics = NewMetrics(0)
    /\ ring = NewRingBuffer(1, 0)
    /\ pool = NewObjectPool(1, 1)
    /\ \E graph \in Graphs : safe = NewSafeStringify(graph)
    /\ queue = NewAsyncWriteQueue(NoQueueOptions)
    /\ file = NewFileTransport(NoFileOptions)
    /\ obs = NoObs

NextSafe == SafeDoStringify

SpecSafe == InitSafeSpec /\ [][NextSafe]_vars

\* the objects reachable from the first one by next references
RECURSIVE ReachableIn(_, _, _)
ReachableIn(graph, from, steps) ==
    IF steps = 0 \/ from = 0 THEN {from} \ {0}
    ELSE {from} \cup ReachableIn(graph, graph[from].next, steps - 1)

\* the graph holds a reference cycle: following next from the first object
\* never ends at a number
HasCycle(graph) ==
    \A n \in ReachableIn(graph, 1, Cardinality(GraphNodes)) : graph[n].next # 0

Tokens(text) == { text[k] : k \in 1..Len(text) }

\* C24: for a graph with a reference cycle every stringify call returned a
\* text in which the cyclic edge is the string "[Circular]", and a second
\* call for the same object returned the same text as the first.
C24_CyclesRendered ==
    HasCycle(safe.graph) =>
        /\ \A k \in 1..Len(obs.texts) : "\"[Circular]\"" \in Tokens(obs.texts[k])
        /\ \A k \in 1..Len(obs.texts) : obs.texts[k] = obs.texts[1]

\* ------------------------------------------------------ redaction, checked
\* Redaction: one logger with a redact list, bound to a plain or to a
\* self-referencing context, under the calls of NextCyclic.
RedactLists == {{"password", "token"}, {"a", "token"}}

InitRedact ==
    \E ctx \in {Ref("svc", 0), Ref("loop", 0)}, red \in RedactLists :
        InitWith([DefaultOptions EXCEPT !.context = ctx, !.redact = red], << "s1" >>)

SpecRedact == InitRedact /\ [][NextCyclic]_vars

\* the nodes reachable from a set of nodes through enumerable properties
RECURSIVE NodesFrom(_, _)
NodesFrom(h, nodes) ==
    LET more == { v \in HeapRefs :
                    \E r \in nodes : \E key \in OwnKeys(h[r]) : h[r].props[key] = v }
    IN  IF more \subseteq nodes THEN nodes ELSE NodesFrom(h, nodes \cup more)

\* every listed key of every node of the entry holds "[REDACTED]"
AllRedacted(h, red) ==
    \A r \in NodesFrom(h, {EntryRef}) :
        \A key \in OwnKeys(h[r]) \cap red : h[r].props[key] = REDACTED

\* the caller's objects hold their original values under non-listed keys
OthersKept(h, red) ==
    \A r \in UserRefs :
        \A key \in DOMAIN h[r].props \ red : h[r].props[key] = UserHeap[r].props[key]

\* C25: after a log call of a logger with a redact list that built an
\* entry, every listed key at any depth of the entry holds "[REDACTED]", a
\* second redaction walk over the entry completes and changes nothing, and
\* the non-listed keys of the caller's objects kept their values.
C25_RedactionIdempotent ==
    (last.outcome \in {"written", "threw"} /\ loggers[1].redact # {}) =>
        /\ AllRedacted(heap, loggers[1].redact)
        /\ redact(heap, EntryRef, loggers[1].redact, StackLimit)
              = [heap |-> heap, ok |-> TRUE]
        /\ OthersKept(heap, loggers[1].redact)

\* --------------------------------------------------------- AdaptiveSampler
\* The rate is kept as a fraction; rate * 0.9 and rate * 1.1 are exact.
RateLess(a, b) == a.num * b.den < b.num * a.den
RateMax(a, b) == IF RateLess(a, b) THEN b ELSE a
RateMin(a, b) == IF RateLess(b, a) THEN b ELSE a
Scale(rate, p, q) == [num |-> rate.num * p, den |-> rate.den * q]
getRate(sm) == [num |-> sm.num, den |-> sm.den]
setRate(sm, rate) == [sm EXCEPT !.num = rate.num, !.den = rate.den]

\* new AdaptiveSampler({ rate }): the defaults of the other options
NewAdaptiveSampler(rate, t) ==
    [num |-> rate.num, den |-> rate.den, counter |-> 0, seed |-> t,
     window |-> << >>, windowSize |-> 1000, targetRate |-> 1000,
     minRate |-> [num |-> 1, den |-> 1000], maxRate |-> [num |-> 1, den |-> 1]]

\* AdaptiveSampler.shouldSample(): note the call, drop the calls older
\* than a second, adjust the rate, then decide as Sampler does.  setRate
\* throws for a rate above 1, which leaves the rate as it was.
AdaptiveShouldSample(as, t) ==
    LET recent == FilterNewer(Append(as.window, t), t - 1000 - 1)
        rate == IF Len(recent) > as.targetRate
                THEN RateMax(as.minRate, Scale(getRate(as), 9, 10))
                ELSE IF Len(recent) * 10 < as.targetRate * 8
                THEN RateMin(as.maxRate, Scale(getRate(as), 11, 10))
                ELSE getRate(as)
    IN  IF RateLess([num |-> 1, den |-> 1], rate)
        THEN [sampler |-> [as EXCEPT !.window = recent], keep |-> FALSE, threw |-> TRUE]
        ELSE Bind(shouldSample(setRate([as EXCEPT !.window = recent], rate)), LAMBDA r :
               [sampler |-> r.sampler, keep |-> r.keep, threw |-> FALSE])

\* n calls of shouldSample() at time t
RECURSIVE AdaptiveCalls(_, _, _)
AdaptiveCalls(as, n, t) ==
    IF n = 0 THEN as ELSE AdaptiveCalls(AdaptiveShouldSample(as, t).sampler, n - 1, t)

\* ------------------------------------------------------- the gates, checked
\* The pipeline: one logger over one sink with sampling (fixed or marked
\* adaptive), rate limiting, metrics and a filter switched on or off; calls
\* at every level with string and object arguments, and time passing.
PipelineOptions ==
    { [DefaultOptions EXCEPT
          !.sampling = [enabled |-> s.enabled, num |-> 1, den |-> s.den,
                        adaptive |-> s.adaptive],
          !.rateLimit = [enabled |-> rl, maxPerSecond |-> Unit, maxBurst |-> 0],
          !.metrics = [enabled |-> m, interval |-> 60000],
          !.filter = f] :
        s \in { [enabled |-> FALSE, den |-> 1, adaptive |-> FALSE],
                [enabled |-> TRUE, den |-> 1, adaptive |-> FALSE],
                [enabled |-> TRUE, den |-> 2, adaptive |-> FALSE],
                [enabled |-> TRUE, den |-> 2, adaptive |-> TRUE] },
        rl \in BOOLEAN, m \in BOOLEAN, f \in {"all", "notFiltered"} }

InitPipeline ==
    \E options \in PipelineOptions :
        InitWith(options, << "s1" >>)

NextPipeline ==
    \/ \E level \in {"debug", "info", "error"},
          obj \in {Str("hi"), Str("filtered"), Ref("plain", 0)} :
          Log(MainTask, 1, level, obj, Undefined, AllOk)
    \/ Tick
    \/ TimerFire(1)

SpecPipeline == InitPipeline /\ [][NextPipeline]_vars

\* C26: a logger created with sampling { enabled: true, adaptive: true }
\* holds, after the calls that reached its sampling gate, the rate an
\* AdaptiveSampler of the configured rate holds after as many calls (below
\* 80% of the target throughput: a rate raised by a tenth per call).
C26_AdaptiveSamplerUsed ==
    (/\ loggers[1].sampling.enabled /\ loggers[1].sampling.adaptive
     /\ samplers[1].counter > 0
     /\ samplers[1].counter * 10 < NewAdaptiveSampler(loggers[1].sampling, 0).targetRate * 8) =>
        getRate(samplers[1])
           = getRate(AdaptiveCalls(NewAdaptiveSampler(loggers[1].sampling, 0),
                                   samplers[1].counter, now))

\* ------------------------------------------------ entry construction, checked
\* Entries: one logger bound to a context that shares a key with the
\* ambient context and with the call objects; calls with a string, a
\* number, an Error and plain objects as the first argument, with and
\* without a message, inside and outside a withContext scope.
Messages == {Undefined, Str("m"), Str("")}

InitEntry ==
    \E ctx \in {Ref("svc", 0), Ref("plain", 0)} :
        InitWith([DefaultOptions EXCEPT !.context = ctx], << "s1" >>)

NextEntry ==
    \/ \E obj \in {Str("hi"), Num(42), Ref("err", 0), Ref("outer", 0), Ref("noted", 0)},
          msg \in Messages :
          Log(MainTask, 1, "info", obj, msg, AllOk)
    \/ \E ctx \in {Ref("ctxA", 0), Ref("noted", 0)} : WithContextEnter(MainTask, 1, ctx)
    \/ WithContextExit(MainTask)

SpecEntry == InitEntry /\ [][NextEntry]_vars

\* the entry the last log call built
LastEntry == heap[EntryRef].props

\* C27: a written entry of a call that supplied a second (message)
\* argument carries that argument as its msg, whatever the first argument.
C27_MessageOverrides ==
    (last.outcome = "written" /\ last.msg # Undefined) =>
        Get(LastEntry, "msg") = last.msg

\* The three layers of the last call: the ambient context of the calling
\* task, the logger's bound context, the call object (a plain object).
AmbientProps == IF last.store.k = "ref" THEN OwnProps(heap[last.store]) ELSE EmptyProps
BoundProps == OwnProps(heap[loggers[last.logger].context])
CallProps ==
    IF last.obj.k = "ref" /\ heap[last.obj].kind = "object"
    THEN OwnProps(heap[last.obj]) ELSE EmptyProps

\* C30: in a written entry every key of the three layers holds the value
\* of the latest layer that has it: the call object's, else the bound
\* context's, else the ambient context's (msg aside when the call sets it
\* from a string first argument or from the message argument).
C30_LaterMergeWins ==
    last.outcome = "written" =>
        \A key \in DOMAIN AmbientProps \cup DOMAIN BoundProps \cup DOMAIN CallProps :
            (key # "msg" \/ (last.msg = Undefined /\ last.obj.k = "ref")) =>
                LastEntry[key] = IF key \in DOMAIN CallProps THEN CallProps[key]
                                 ELSE IF key \in DOMAIN BoundProps THEN BoundProps[key]
                                 ELSE AmbientProps[key]

\* one key in all three layers, the call object's value in the entry
C30_Witness ==
    /\ last.outcome = "written"
    /\ "user" \in DOMAIN AmbientProps \cap DOMAIN BoundProps \cap DOMAIN CallProps
    /\ AmbientProps["user"] # BoundProps["user"]
    /\ BoundProps["user"] # CallProps["user"]
    /\ LastEntry["user"] = CallProps["user"]
    /\ LastEntry["password"] = BoundProps["password"]
    /\ "requestId" \in DOMAIN LastEntry

\* What the gates of logger 1 answer for a call at a level in the current
\* state: the level gate, the sampler's decision, the limiter's decision.
LevelAdmits(level) == shouldLog(level, loggers[1].level)
SamplerKeeps ==
    ~loggers[1].sampling.enabled \/ shouldSample(samplers[1]).keep
LimiterAdmits ==
    ~loggers[1].rateLimit.enabled \/ tryAcquire(limiters[1], now).ok
OneDropMore ==
    IF loggers[1].metrics.enabled
    THEN aggregators' = [aggregators EXCEPT ![1].droppedCount = @ + 1]
    ELSE aggregators' = aggregators

\* a step is a log call
LogStep == counters'.calls = counters.calls + 1

\* C28: a log call below the level leaves sampler, limiter, metrics and
\* sinks as they were; a call the sampler declines advances the sampler
\* only, records one metrics drop, leaves the limiter alone and writes to
\* no sink; a call the limiter denies records one metrics drop, counts one
\* limiter drop without taking a token and writes to no sink.
C28_GatesInOrder ==
    [][LogStep =>
         /\ ~LevelAdmits(last'.level) =>
               /\ samplers' = samplers /\ limiters' = limiters
               /\ aggregators' = aggregators /\ received' = received
         /\ (LevelAdmits(last'.level) /\ ~SamplerKeeps) =>
               /\ samplers'[1] = shouldSample(samplers[1]).sampler
               /\ limiters' = limiters
               /\ OneDropMore
               /\ received' = received
         /\ (LevelAdmits(last'.level) /\ SamplerKeeps /\ ~LimiterAdmits) =>
               /\ limiters'[1].tokens = refill(limiters[1], now).tokens
               /\ limiters'[1].dropped = limiters[1].dropped + 1
               /\ OneDropMore
               /\ received' = received]_vars

\* the sampler declined a call of a logger with limiter and metrics on
C28_Witness ==
    /\ last.outcome = "sampled"
    /\ loggers[1].rateLimit.enabled /\ loggers[1].metrics.enabled
    /\ aggregators[1].droppedCount > 0
    /\ limiters[1].tokens = limiters[1].maxBurst
    /\ received["s1"] = << >>

\* the call at a level passes the three gates and an entry is built
GatesAdmit(level) == LevelAdmits(level) /\ SamplerKeeps /\ LimiterAdmits

\* recordLog() ran once for an entry of the level: one more in total and
\* one more at the level, no drop
OneLogMore(level) ==
    IF loggers[1].metrics.enabled
    THEN /\ aggregators'[1].totalCount = aggregators[1].totalCount + 1
         /\ aggregators'[1].counts = [aggregators[1].counts EXCEPT ![level] = @ + 1]
         /\ aggregators'[1].droppedCount = aggregators[1].droppedCount
    ELSE aggregators' = aggregators

\* C29: an entry for which the filter predicate returns false reaches no
\* sink and leaves the metrics (total, per-level and dropped counts) as
\* they were; an entry for which it returns true is counted once by the
\* metrics and written to the sink.
C29_FilteredUntouched ==
    [][(LogStep /\ GatesAdmit(last'.level)) =>
         /\ ~Filter(loggers[1].filter, heap'[EntryRef].props) =>
               /\ received' = received
               /\ aggregators' = aggregators
         /\ Filter(loggers[1].filter, heap'[EntryRef].props) =>
               /\ Len(received'["s1"]) = Len(received["s1"]) + 1
               /\ OneLogMore(last'.level)]_vars

\* the filter rejected an entry of a logger with metrics on, after an
\* earlier entry was counted and written
C29_Witness ==
    /\ last.outcome = "filtered"
    /\ loggers[1].metrics.enabled
    /\ aggregators[1].totalCount = 1
    /\ aggregators[1].droppedCount = 0
    /\ Len(received["s1"]) = 1

\* ------------------------------------------------------- dispatch, checked
\* Level and time keys: one logger at info over a plain sink and a sink at
\* debug, with or without "time" in its redact list, bound to a context
\* with or without level and time keys; calls with a string and with
\* objects with and without those keys, inside and outside scopes.
InitLevelKey ==
    \E ctx \in {Ref("svc", 0), Ref("leveled", 0)}, red \in {{}, {"time"}} :
        InitWith([DefaultOptions EXCEPT !.context = ctx, !.redact = red], << "s1", "s3" >>)

NextLevelKey ==
    \/ \E level \in {"debug", "info", "error"},
          obj \in {Str("hi"), Ref("leveled", 0), Ref("noted", 0)} :
          Log(MainTask, 1, level, obj, Undefined, AllOk)
    \/ \E ctx \in {Ref("ctxA", 0), Ref("leveled", 0)} : WithContextEnter(MainTask, 1, ctx)
    \/ WithContextExit(MainTask)

SpecLevelKey == InitLevelKey /\ [][NextLevelKey]_vars

\* the last call handed its entry to a sink
Handed == \E s \in Sinks : last.writes[s] > 0

\* the level the entry of the last call carries
EntryLevel == JsString(Get(LastEntry, "level"))

AtOrAbove(a, b) == a \in LogLevels /\ b \in LogLevels /\ LOG_LEVELS[a] >= LOG_LEVELS[b]

\* The threshold a sink applies to the last call: its own level, or else
\* the logger's minimum level at the time of the call.
Threshold(s) == IF SinkLevel[s] # "" THEN SinkLevel[s] ELSE last.min

\* C31: of an entry that passed the gates each registered sink got a write
\* exactly when the entry's level is at or above the sink's own level, or
\* the logger's minimum when the sink has none; and no sink got a write of
\* an entry whose level is below the logger's minimum.
C31_SinkThreshold ==
    last.outcome = "written" =>
        /\ \A s \in Sinks :
              InList(transports, s) =>
                 (last.writes[s] = 1 <=> AtOrAbove(EntryLevel, Threshold(s)))
        /\ Handed => AtOrAbove(EntryLevel, last.min)

\* C38: an entry handed to a sink carries the severity of the log method
\* that was called as its level, and a number as its time.
C38_LevelAndTimeKept ==
    (last.outcome = "written" /\ Handed) =>
        /\ Get(LastEntry, "level") = Str(last.level)
        /\ last.level \in LogLevels
        /\ Get(LastEntry, "time").k = "num"

\* ------------------------------------------------ AdaptiveSampler, checked
\* new AdaptiveSampler(options): a missing or zero option takes its default
AdaptiveSamplerOf(options, t) ==
    [NewAdaptiveSampler(options.rate, t) EXCEPT
        !.targetRate = IF options.targetRate # 0 THEN options.targetRate ELSE @,
        !.minRate = IF options.minRate.num # 0 THEN options.minRate ELSE @,
        !.maxRate = IF options.maxRate.num # 0 THEN options.maxRate ELSE @]

\* sampler.shouldSample() on the adaptive sampler, with the rate before
\* the call, the window the call found and its outcome kept beside it
AdaptiveDoShouldSample ==
    /\ obs.adapt.asked < MaxAdaptive
    /\ \E r \in { AdaptiveShouldSample(pair[1], now) } :
          /\ pair' = << r.sampler >>
          /\ obs' = [obs EXCEPT !.adapt = [asked |-> obs.adapt.asked + 1,
                                           before |-> getRate(pair[1]),
                                           found |-> Len(r.sampler.window),
                                           counter |-> pair[1].counter,
                                           keep |-> r.keep, threw |-> r.threw]]
    /\ UNCHANGED << loggerVars, now, counters, bucket, window, metrics, ring, pool, safe, queue, file >>

Fraction(n, d) == [num |-> n, den |-> d]

AdaptiveOptions ==
    [rate : {Fraction(0, 1), Fraction(1, 4), Fraction(1, 2), Fraction(1, 1)},
     targetRate : {1, 3},
     minRate : {Fraction(0, 1), Fraction(2, 5)},
     maxRate : {Fraction(0, 1), Fraction(3, 4), Fraction(3, 2)}]

InitAdaptiveSpec ==
    /\ InitLogger(DefaultOptions, << >>)
    /\ InitLimiters(DefaultOptions.rateLimit, [maxRequests |-> 1, windowMs |-> WindowMs])
    /\ \E o \in AdaptiveOptions : pair = << AdaptiveSamplerOf(o, 0) >>
    /\ obs = NoObs
    /\ metrics = NewMetrics(0)
    /\ pool = NewObjectPool(1, 1)
    /\ safe = NewSafeStringify(NoGraph)
    /\ queue = NewAsyncWriteQueue(NoQueueOptions)
    /\ file = NewFileTransport(NoFileOptions)
    /\ ring = NewRingBuffer(1, 0)

NextAdaptive ==
    \/ AdaptiveDoShouldSample
    \/ Sleep(3 * TickMs)

SpecAdaptive == InitAdaptiveSpec /\ [][NextAdaptive]_vars

RateEq(a, b) == a.num * b.den = b.num * a.den

\* C32: with minRate <= maxRate, a shouldSample() call that found more
\* calls in the window than the target left the rate at the larger of
\* minRate and 0.9 times the rate before, which is not above the rate
\* before; a call that found fewer than 80% of the target left it at the
\* smaller of maxRate and 1.1 times the rate before; and the call decided
\* with the adjusted rate.
C32_RateAdjusted ==
    (obs.adapt.asked > 0 /\ ~RateLess(pair[1].maxRate, pair[1].minRate)) =>
        /\ ~obs.adapt.threw
        /\ obs.adapt.found > pair[1].targetRate =>
              /\ RateEq(getRate(pair[1]),
                        RateMax(pair[1].minRate, Scale(obs.adapt.before, 9, 10)))
              /\ ~RateLess(getRate(pair[1]), pair[1].minRate)
              /\ ~RateLess(obs.adapt.before, getRate(pair[1]))
        /\ obs.adapt.found * 10 < pair[1].targetRate * 8 =>
              /\ RateEq(getRate(pair[1]),
                        RateMin(pair[1].maxRate, Scale(obs.adapt.before, 11, 10)))
              /\ ~RateLess(pair[1].maxRate, getRate(pair[1]))
        /\ obs.adapt.keep
              = shouldSample([pair[1] EXCEPT !.counter = obs.adapt.counter]).keep

\* Arrays: one logger with a redact list, bound to a context with or
\* without an array; calls with objects that hold an array whose elements
\* are an object with a listed key and a string.
InitArrays ==
    \E ctx \in {Ref("svc", 0), Ref("batch", 0)}, red \in {{"password", "token"}, {"token"}} :
        InitWith([DefaultOptions EXCEPT !.context = ctx, !.redact = red], << "s1" >>)

NextArrays ==
    \/ \E obj \in {Str("hi"), Ref("plain", 0), Ref("outer", 0), Ref("batch", 0)},
          msg \in {Undefined, Str("m")} :
          Log(MainTask, 1, "info", obj, msg, AllOk)
    \/ \E ctx \in {Ref("ctxA", 0), Ref("batch", 0)} : WithContextEnter(MainTask, 1, ctx)
    \/ WithContextExit(MainTask)

SpecArrays == InitArrays /\ [][NextArrays]_vars

\* the arrays of the entry, and the objects that are elements of one
EntryArrays(h) == { r \in NodesFrom(h, {EntryRef}) : h[r].kind = "array" }
ArrayElements(h) ==
    { v \in HeapRefs : \E r \in EntryArrays(h) : \E i \in DOMAIN h[r].props : h[r].props[i] = v }

\* C33 as stated: in an entry handed to the sink by a logger with a redact
\* list, the arrays and the objects that are their elements hold what
\* they held before the call.
C33_ArraysSkipped ==
    (last.outcome = "written" /\ loggers[1].redact # {}) =>
        \A r \in EntryArrays(heap) \cup ArrayElements(heap) : heap[r] = UserHeap[r]

\* C33, amended: the walk enters arrays as it enters objects.  In an entry
\* handed to the sink the elements of an array that are not objects hold
\* what they held before, and in every object that is an element of an
\* array each listed key holds "[REDACTED]" and each other key its value.
C33_ArraysWalked ==
    (last.outcome = "written" /\ loggers[1].redact # {}) =>
        /\ \A r \in EntryArrays(heap) :
              \A i \in DOMAIN heap[r].props \ loggers[1].redact :
                  heap[r].props[i] = UserHeap[r].props[i]
        /\ \A e \in ArrayElements(heap) :
              \A key \in DOMAIN heap[e].props :
                  heap[e].props[key] = IF key \in loggers[1].redact THEN REDACTED
                                       ELSE UserHeap[e].props[key]

\* an entry with an array went to the sink: the token of the object in the
\* array is redacted, the string beside it is not
C33_Witness ==
    /\ last.outcome = "written" /\ last.obj = Ref("batch", 0)
    /\ Ref("list", 0) \in EntryArrays(heap)
    /\ heap[Ref("inner", 0)].props["token"] = REDACTED
    /\ heap[Ref("list", 0)].props["1"] = Str("abc123")

\* ------------------------------------------------------ child(), checked
\* Nested contexts: a logger bound to a flat context or to one that holds
\* an object under data; children made from it and from its children with
\* flat extra contexts and with one that holds another object under data;
\* every logger logs.
ChildExtras == {Ref("db", 0), Ref("override", 0), Ref("ctxA", 0)}

InitNested ==
    \E ctx \in {Ref("svc", 0), Ref("outer", 0)} :
        InitWith([DefaultOptions EXCEPT !.context = ctx], << "s1" >>)

NextNested ==
    \/ \E l \in LoggerIds, extra \in ChildExtras : Child(l, extra)
    \/ \E l \in LoggerIds, obj \in {Str("hi"), Ref("plain", 0)} :
          Log(MainTask, l, "info", obj, Undefined, AllOk)

SpecNested == InitNested /\ [][NextNested]_vars

\* the bound context of logger l
BoundOf(l) == OwnProps(heap[loggers[l].context])

\* C34 as stated: where a child's parent and the child both hold an object
\* under a key, the child's object has every key of the parent's object.
C34_DeepUnion ==
    \A id \in LoggerIds :
        loggers[id].parent # 0 =>
            \A key \in DOMAIN BoundOf(id) \cap DOMAIN BoundOf(loggers[id].parent) :
                LET mine == BoundOf(id)[key]
                    theirs == BoundOf(loggers[id].parent)[key]
                IN  (mine.k = "ref" /\ theirs.k = "ref") =>
                        DOMAIN heap[theirs].props \subseteq DOMAIN heap[mine].props

\* C34, amended: child() binds the union of the top-level keys of the
\* parent's bound context and of the extra context, each key holding the
\* extra context's value when it has the key and the parent's otherwise;
\* an object under a key is taken whole, never merged.
C34_ShallowUnion ==
    [][Len(loggers') = Len(loggers) + 1 =>
         \E extra \in ChildExtras :
            LET id == Len(loggers')
                parent == BoundOf(loggers'[id].parent)
                added == OwnProps(heap[extra])
                bound == heap'[loggers'[id].context].props
            IN  /\ DOMAIN bound = DOMAIN parent \cup DOMAIN added
                /\ \A key \in DOMAIN bound :
                      bound[key] = IF key \in DOMAIN added THEN added[key] ELSE parent[key]]_vars

\* a child of the logger bound to { user, data: { token } } made with
\* { component, data: { user, password } }: its data is the extra's object
C34_Witness ==
    \E id \in LoggerIds :
        /\ loggers[id].parent = 1
        /\ BoundOf(1) = OwnProps(UserHeap[Ref("outer", 0)])
        /\ BoundOf(id)["user"] = Str("john")
        /\ BoundOf(id)["component"] = Str("c")
        /\ BoundOf(id)["data"] = Ref("plain", 0)
        /\ "token" \notin DOMAIN heap[BoundOf(id)["data"]].props

\* ------------------------------------------------------ the pool, checked
\* a call on the pool was made
PoolStep == counters'.ops = counters.ops + 1

\* C35: after every call the free list holds at most size objects;
\* release(obj) appends obj to the free list when the list is below size
\* and leaves the list alone otherwise; acquire() hands out an object also
\* when the list is empty and the active count has reached maxSize, a new
\* one, with a warning; resize(n) leaves the free list with n objects.
C35_FreeListBounded ==
    [][PoolStep =>
         /\ Len(pool'.pool) <= pool'.size
         /\ obs'.op = "release" =>
               pool'.pool = IF Len(pool.pool) < pool.size
                            THEN Append(pool.pool, obs'.arg) ELSE pool.pool
         /\ obs'.op = "acquire" =>
               /\ obs'.arg \in 1..pool'.made
               /\ (Len(pool.pool) = 0 /\ pool.activeCount >= pool.maxSize) =>
                     /\ obs'.arg = pool.made + 1
                     /\ obs'.warned
         /\ obs'.op = "resize" =>
               /\ Len(pool'.pool) = obs'.arg
               /\ pool'.size = obs'.arg]_vars

\* a held object was released to a full free list and abandoned, after
\* an acquire beyond maxSize
C35_Witness ==
    /\ obs.op = "release" /\ ~obs.misused
    /\ Len(pool.pool) = pool.size /\ pool.size > 0
    /\ \A i \in 1..Len(pool.pool) : pool.pool[i] # obs.arg
    /\ pool.made > pool.maxSize

\* C40: the active count is the number of objects acquired and not yet
\* released and is not negative, acquire() never handed out an object
\* that a caller still held, and no object is twice on the free list.
C40_Accounting ==
    /\ getActiveCount(pool) = Cardinality(obs.held)
    /\ getActiveCount(pool) >= 0
    /\ ~obs.shared
    /\ \A i, j \in 1..Len(pool.pool) : pool.pool[i] = pool.pool[j] => i = j

\* ------------------------------------------------ AsyncWriteQueue alone
\* queue.enqueue(item); the items are numbered in the order of their enqueue
QueueDoEnqueue ==
    /\ counters.ops < MaxItems
    /\ queue' = enqueue(queue, counters.ops + 1).queue
    /\ counters' = [counters EXCEPT !.ops = @ + 1]
    /\ obs' = [obs EXCEPT !.op = "enqueue", !.stale = TRUE]
    /\ UNCHANGED << loggerVars, now, bucket, window, pair, metrics, ring, pool, safe, file >>

\* queue.process(handler), with a handler whose calls settle later
QueueDoProcess ==
    /\ queue' = process(queue).queue
    /\ obs' = [obs EXCEPT !.op = "process", !.invoked = TRUE, !.stale = FALSE]
    /\ UNCHANGED << loggerVars, now, counters, bucket, window, pair, metrics, ring, pool,
                    safe, file >>

\* the handler call for item settles and its finally() callback runs
QueueHandlerSettles(item) ==
    /\ item \in queue.running
    /\ \E r \in { handlerSettled(queue, item) } :
          /\ queue' = r.queue
          /\ obs' = [obs EXCEPT
                        !.op = "settle",
                        !.resolved = @ + r.resolved,
                        !.clean = @ /\ (r.resolved > 0 =>
                                            /\ Len(r.queue.queue) = 0
                                            /\ r.queue.activeCount = 0)]
    /\ UNCHANGED << loggerVars, now, counters, bucket, window, pair, metrics, ring, pool,
                    safe, file >>

\* queue.drain(), by a caller that awaits the result
QueueDoDrain ==
    /\ obs.resolved + queue.drainCallbacks < MaxDrains
    /\ \E r \in { drain(queue) } :
          /\ queue' = r.queue
          /\ obs' = [obs EXCEPT
                        !.op = "drain",
                        !.resolved = @ + (IF r.resolved THEN 1 ELSE 0),
                        !.clean = @ /\ (r.resolved =>
                                            /\ Len(queue.queue) = 0
                                            /\ queue.activeCount = 0)]
    /\ UNCHANGED << loggerVars, now, counters, bucket, window, pair, metrics, ring, pool,
                    safe, file >>

InitQueueSpec ==
    /\ InitLogger(DefaultOptions, << >>)
    /\ InitLimiters(DefaultOptions.rateLimit, [maxRequests |-> 1, windowMs |-> WindowMs])
    /\ pair = << >>
    /\ metrics = NewMetrics(0)
    /\ ring = NewRingBuffer(1, 0)
    /\ pool = NewObjectPool(1, 1)
    /\ safe = NewSafeStringify(NoGraph)
    /\ \E concurrency \in {0, 2} :
          queue = NewAsyncWriteQueue([highWaterMark |-> 0, concurrency |-> concurrency])
    /\ file = NewFileTransport(NoFileOptions)
    /\ obs = NoObs

NextQueue ==
    \/ QueueDoEnqueue
    \/ QueueDoProcess
    \/ \E item \in 1..MaxItems : QueueHandlerSettles(item)
    \/ QueueDoDrain

SpecQueue == InitQueueSpec /\ [][NextQueue]_vars

\* C36: once items were enqueued and process(handler) was invoked after the
\* last enqueue, a waiting drain() is resolved by the time every handler call
\* has settled, whatever the number of items and with the default concurrency
\* of 1; and whenever a drain() is resolved the queue is empty and no handler
\* is active.
C36_DrainResolves ==
    /\ obs.clean
    /\ (obs.invoked /\ ~obs.stale /\ queue.running = {}) => queue.drainCallbacks = 0

\* a drain() was resolved by the finally() of a handler call
C36_Resolved == obs.op = "settle" /\ obs.resolved > 0

\* --------------------------------------------------- FileTransport alone
Written(f) == UNION { { f.stream[i][j] : j \in DOMAIN f.stream[i] } : i \in DOMAIN f.stream }

\* initializeStream() completes: the directory and the write stream exist
FileInitDone ==
    /\ ~file.initialized
    /\ file' = [file EXCEPT !.initialized = TRUE]
    /\ obs' = [obs EXCEPT !.op = "init"]
    /\ UNCHANGED << loggerVars, now, counters, bucket, window, pair, metrics, ring, pool,
                    safe, queue >>

\* transport.write(entry); the entries are numbered in the order of the calls
FileDoWrite ==
    /\ counters.ops < MaxItems
    /\ file' = fileWrite(file, counters.ops + 1)
    /\ counters' = [counters EXCEPT !.ops = @ + 1]
    /\ obs' = [obs EXCEPT
                  !.op = "write",
                  !.accepted = IF file.shutdown = "none" /\ ~file.closed
                               THEN @ \cup {counters.ops + 1}
                               ELSE @,
                  !.late = IF file.shutdown = "done" /\ file' # file THEN @ + 1 ELSE @]
    /\ UNCHANGED << loggerVars, now, bucket, window, pair, metrics, ring, pool, safe, queue >>

\* the flush interval fires
FileTimerFlush ==
    /\ file.flushTimer
    /\ file' = flush(file)
    /\ obs' = [obs EXCEPT !.op = "timer"]
    /\ UNCHANGED << loggerVars, now, counters, bucket, window, pair, metrics, ring, pool,
                    safe, queue >>

\* the handler of a queue item, past its await of initPromise, hands the data
\* to writeStream.write()
FileHandlerWrite(item) ==
    /\ item \in file.unwritten
    /\ file.initialized
    /\ file' = [file EXCEPT !.unwritten = @ \ {item},
                            !.stream = IF file.ended THEN @ ELSE Append(@, item.data)]
    /\ obs' = [obs EXCEPT !.op = "stream"]
    /\ UNCHANGED << loggerVars, now, counters, bucket, window, pair, metrics, ring, pool,
                    safe, queue >>

\* the handler call for item settles (the stream called back, or the handler
\* returned early) and the queue's finally() callback runs; a drain() that is
\* resolved lets close() go on
FileHandlerSettles(item) ==
    /\ item \in file.writeQueue.running \ file.unwritten
    /\ \E r \in { handlerSettled(file.writeQueue, item) } :
          file' = [file EXCEPT
                      !.writeQueue = r.queue,
                      !.shutdown = IF r.resolved > 0 /\ file.shutdown = "drain"
                                   THEN "end" ELSE @]
    /\ obs' = [obs EXCEPT !.op = "settle"]
    /\ UNCHANGED << loggerVars, now, counters, bucket, window, pair, metrics, ring, pool,
                    safe, queue >>

\* transport.close() is called: the flush timer is cleared and initPromise awaited
FileCloseCall ==
    /\ file.shutdown = "none"
    /\ file' = [file EXCEPT !.flushTimer = FALSE, !.shutdown = "init"]
    /\ obs' = [obs EXCEPT !.op = "close"]
    /\ UNCHANGED << loggerVars, now, counters, bucket, window, pair, metrics, ring, pool,
                    safe, queue >>

\* close() after initPromise: this.flush(), then await this.processQueue()
FileCloseFlush ==
    /\ file.shutdown = "init"
    /\ file.initialized
    /\ \E r \in { processQueue(flush(file)) } :
          file' = [r.file EXCEPT !.shutdown = "process", !.awaited = r.started]
    /\ obs' = [obs EXCEPT !.op = "flush"]
    /\ UNCHANGED << loggerVars, now, counters, bucket, window, pair, metrics, ring, pool,
                    safe, queue >>

\* close() after processQueue(): closed = true, then await writeQueue.drain()
FileCloseMark ==
    /\ file.shutdown = "process"
    /\ file.awaited \cap file.writeQueue.running = {}
    /\ \E r \in { drain(file.writeQueue) } :
          file' = [file EXCEPT !.closed = TRUE,
                               !.writeQueue = r.queue,
                               !.awaited = {},
                               !.shutdown = IF r.resolved THEN "end" ELSE "drain"]
    /\ obs' = [obs EXCEPT !.op = "mark"]
    /\ UNCHANGED << loggerVars, now, counters, bucket, window, pair, metrics, ring, pool,
                    safe, queue >>

\* close() after drain(): writeStream.end() calls back and close() resolves
FileCloseEnd ==
    /\ file.shutdown = "end"
    /\ file' = [file EXCEPT !.ended = TRUE, !.shutdown = "done"]
    /\ obs' = [obs EXCEPT !.op = "end"]
    /\ UNCHANGED << loggerVars, now, counters, bucket, window, pair, metrics, ring, pool,
                    safe, queue >>

FileOptions ==
    [bufferSize : {0, EntryLength, 2 * EntryLength}, flushInterval : {0, 1000}]

InitFileSpec ==
    /\ InitLogger(DefaultOptions, << >>)
    /\ InitLimiters(DefaultOptions.rateLimit, [maxRequests |-> 1, windowMs |-> WindowMs])
    /\ pair = << >>
    /\ metrics = NewMetrics(0)
    /\ ring = NewRingBuffer(1, 0)
    /\ pool = NewObjectPool(1, 1)
    /\ safe = NewSafeStringify(NoGraph)
    /\ queue = NewAsyncWriteQueue(NoQueueOptions)
    /\ \E options \in FileOptions : file = NewFileTransport(options)
    /\ obs = NoObs

NextFile ==
    \/ FileInitDone
    \/ FileDoWrite
    \/ FileTimerFlush
    \/ \E item \in file.unwritten : FileHandlerWrite(item)
    \/ \E item \in file.writeQueue.running : FileHandlerSettles(item)
    \/ FileCloseCall
    \/ FileCloseFlush
    \/ FileCloseMark
    \/ FileCloseEnd

SpecFile == InitFileSpec /\ [][NextFile]_vars

\* C37: a close() that waits for the write queue to drain can still be
\* resolved (a handler call is outstanding whose settlement drains the queue);
\* when close() has resolved, every entry write() accepted before close() was
\* called has been handed to the file stream; and a write() after close() has
\* completed changes nothing.
C37_CloseCompletes ==
    /\ file.shutdown = "drain" => file.writeQueue.running # {}
    /\ file.shutdown = "done" => obs.accepted \subseteq Written(file)
    /\ obs.late = 0

\* close() resolved after entries were written and flushed before it
C37_Closed == file.shutdown = "done" /\ Cardinality(obs.accepted) >= 2

\* a write() was made after close() completed
C37_LateWrite == file.shutdown = "done" /\ obs.op = "write"

\* C39: a log call leaves its inputs alone.  After any log call the objects
\* of the callers (the object passed to the call, the bound context, the
\* ambient context, and every object nested in them) hold the values they
\* held before the call, also when the logger has a redact list.
C39_InputsUntouched ==
    last.outcome # "none" => \A r \in UserRefs : heap[r] = UserHeap[r]
====
